---- MODULE Spec2Model ----
(***************************************************************************)
(* Model of mbcj-oauth-sv: the authorization gate of src/middleware.js     *)
(* (validarUsuario / validarUsuarioMW over extraerDatosJWT) and the        *)
(* endpoints of src/oauthRouter.js.                                        *)
(*                                                                         *)
(* One inbound request is followed at a time: `gate` holds the request     *)
(* that is passing through the guard, `rt` the request inside a router     *)
(* endpoint.  A request advances one asynchronous completion per step      *)
(* (verifier callback, store reply, provider reply); the promise           *)
(* continuations that run in the same turn of the event loop belong to     *)
(* the step that settles the promise.  Accepting a new request discards    *)
(* the record of the finished one.                                         *)
(***************************************************************************)
EXTENDS Integers, Sequences, FiniteSets, TLC

(***************************************************************************)
(* Bounds                                                                  *)
(***************************************************************************)
\* the clock runs over 0..MaxNow; the tokens of the model expire at 1
MaxNow == 1

(***************************************************************************)
(* JavaScript values: undefined, null and strings (sequences of            *)
(* characters).                                                            *)
(***************************************************************************)
Undefined == [t |-> "undefined"]
Null == [t |-> "null"]
Str(s) == [t |-> "str", s |-> s]

\* ToBoolean of an undefined / null / string value
Truthy(v) == v.t = "str" /\ Len(v.s) > 0

\* String.prototype.startsWith
StartsWith(s, p) == Len(s) >= Len(p) /\ SubSeq(s, 1, Len(p)) = p

\* String.prototype.slice(n)
Slice(s, n) == SubSeq(s, n + 1, Len(s))

\* the literal 'Bearer '
BEARER == <<"B", "e", "a", "r", "e", "r", " ">>

\* the argument of authHeader.slice(7)
BearerLen == 7

(***************************************************************************)
(* Tokens.  A signed token is the text  header "." payload "." signature : *)
(* the header is the algorithm (E = ES256, H = HS256), the payload is      *)
(* documento, tipo_usuario_id and exp (one character each, "-" for a       *)
(* payload without data), and the signature is the signing key followed by *)
(* the header and payload it was computed over.                            *)
(***************************************************************************)
Jwt(alg, doc, role, exp, key) ==
  <<alg, ".", doc, role, exp, ".", key, alg, doc, role, exp>>

TokA == Jwt("E", "1", "4", "1", "k")
TokB == Jwt("E", "1", "1", "1", "k")
TokC == Jwt("E", "2", "4", "1", "k")
TokBadSig == Jwt("E", "1", "4", "1", "x")
\* the payload of TokA under the signature of TokB
TokForged == <<"E", ".", "1", "4", "1", ".", "k", "E", "1", "1", "1">>
TokHS == Jwt("H", "1", "4", "1", "k")
TokNoData == Jwt("E", "-", "-", "1", "k")
TokMal == <<"z">>
ADM == <<"a", "d", "m">>
AD == <<"a", "d">>
ADMX == <<"a", "d", "m", "x">>

JwtTokens == {TokA, TokB, TokC, TokBadSig, TokForged, TokHS, TokNoData}
Tokens == JwtTokens \cup {TokMal, ADM, AD, ADMX}

\* the documentos that may have a local account; a token or a profile may
\* also carry documento "2", which has none
StoreDocs == {"1"}
Roles == {1, 4}

DigitVal(c) ==
  CASE c = "0" -> 0 [] c = "1" -> 1 [] c = "2" -> 2 [] c = "3" -> 3
    [] c = "4" -> 4 [] c = "5" -> 5 [] OTHER -> 9

\* the key the provider signs with, as stored in the key file
ProviderKey == "k"
\* let CLAVE_PUBLICA before the file is read
KeyUnread == ""
\* what the key file may hold: the key of the provider or another one
KeyFiles == {ProviderKey, "x"}

(***************************************************************************)
(* State                                                                   *)
(***************************************************************************)
VARIABLES
  TOKEN_ADMIN,    \* process.env.TOKEN_ADMIN: undefined or a string
  CLAVE_PUBLICA,  \* the verification key read at module load
  OAUTH_VALIDADO,           \* process.env.OAUTH_VALIDADO
  OAUTH_REEMPLAZAR_NOMBRE,  \* process.env.OAUTH_REEMPLAZAR_NOMBRE
  store,          \* the Usuario table: documento -> row or NoRow
  now,            \* the clock
  gate,           \* the request in validarUsuario / validarUsuarioMW
  rt,             \* the request in a router endpoint
  proceso,        \* the process: loading the key, serving, or exited
  calls,          \* the calls of validarUsuario(datos) made directly
  archivos,       \* the file system: the directories and the key files
  descarga        \* the call of obtenerClavePublica

\* the configuration read from process.env and the key file at load
env == <<TOKEN_ADMIN, CLAVE_PUBLICA, OAUTH_VALIDADO, OAUTH_REEMPLAZAR_NOMBRE>>

vars == <<env, store, now, gate, rt, proceso, calls, archivos, descarga>>

\* String.prototype.toUpperCase
Upper(c) ==
  CASE c = "a" -> "A" [] c = "e" -> "E" [] c = "f" -> "F" [] c = "i" -> "I"
    [] c = "l" -> "L" [] c = "o" -> "O" [] c = "r" -> "R" [] c = "s" -> "S"
    [] c = "t" -> "T" [] c = "u" -> "U" [] OTHER -> c
ToUpperCase(s) == [i \in 1..Len(s) |-> Upper(s[i])]

\* the names of the person in the provider's profile
Nombre == <<"J", "o">>
Apellidos == <<"P", "i">>
\* the nombre an account may hold: the one the provider's names give, and
\* the same words as they were typed locally
NombreOAuth == <<"P", "I", ",", " ", "J", "O">>
NombreLocal == <<"P", "i", ",", " ", "J", "o">>
StoredNames == {NombreOAuth, NombreLocal}

\* a Date
Date(at) == [t |-> "date", at |-> at]

NoRow == [t |-> "null"]
\* an account that has not logged in yet
Row(documento, activo, tipo, nombre) ==
  [t |-> "row", id |-> 100 + DigitVal(documento), documento |-> documento,
   activo |-> activo, tipo_usuario_id |-> tipo, nombre |-> nombre,
   ultimo_ingreso |-> Null]
Rows(documento) ==
  {Row(documento, a, r, n) : a \in BOOLEAN, r \in Roles, n \in StoredNames}

(***************************************************************************)
(* jwt.verify(token, key, {algorithms: ['ES256']}, callback)               *)
(***************************************************************************)
Dots(s) == {i \in 1..Len(s) : s[i] = "."}
Dot1(s) == CHOOSE i \in Dots(s) : \A j \in Dots(s) : i <= j
Dot2(s) == CHOOSE i \in Dots(s) : \A j \in Dots(s) : i >= j
HeaderOf(s) == SubSeq(s, 1, Dot1(s) - 1)
PayloadOf(s) == SubSeq(s, Dot1(s) + 1, Dot2(s) - 1)
SignatureOf(s) == SubSeq(s, Dot2(s) + 1, Len(s))

VerifyError(name, message) ==
  [ok |-> FALSE, name |-> name, message |-> message]
VerifyOk(payload) ==
  [ok |-> TRUE,
   hasData |-> payload[1] # "-",
   documento |-> payload[1],
   tipo_usuario_id |-> DigitVal(payload[2]),
   exp |-> DigitVal(payload[3])]

\* jwt.verify testing the expiry before the algorithm and the signature
JwtVerify_ExpiryFirst(token, key, clock) ==
  IF ~Truthy(token)
    THEN VerifyError("JsonWebTokenError", "jwt must be provided")
  ELSE IF Cardinality(Dots(token.s)) # 2
    THEN VerifyError("JsonWebTokenError", "jwt malformed")
  ELSE IF Len(HeaderOf(token.s)) # 1 \/ Len(PayloadOf(token.s)) # 3
    THEN VerifyError("JsonWebTokenError", "invalid token")
  ELSE IF clock >= DigitVal(PayloadOf(token.s)[3])
    THEN VerifyError("TokenExpiredError", "jwt expired")
  ELSE IF Len(SignatureOf(token.s)) = 0
    THEN VerifyError("JsonWebTokenError", "jwt signature is required")
  ELSE IF HeaderOf(token.s) # <<"E">>
    THEN VerifyError("JsonWebTokenError", "invalid algorithm")
  ELSE IF SignatureOf(token.s)
            # <<key>> \o HeaderOf(token.s) \o PayloadOf(token.s)
    THEN VerifyError("JsonWebTokenError", "invalid signature")
  ELSE VerifyOk(PayloadOf(token.s))

JwtVerify(token, key, clock) ==
  IF ~Truthy(token)
    THEN VerifyError("JsonWebTokenError", "jwt must be provided")
  ELSE IF Cardinality(Dots(token.s)) # 2
    THEN VerifyError("JsonWebTokenError", "jwt malformed")
  ELSE IF Len(HeaderOf(token.s)) # 1 \/ Len(PayloadOf(token.s)) # 3
    THEN VerifyError("JsonWebTokenError", "invalid token")
  ELSE IF Len(SignatureOf(token.s)) = 0
    THEN VerifyError("JsonWebTokenError", "jwt signature is required")
  ELSE IF HeaderOf(token.s) # <<"E">>
    THEN VerifyError("JsonWebTokenError", "invalid algorithm")
  ELSE IF SignatureOf(token.s)
            # <<key>> \o HeaderOf(token.s) \o PayloadOf(token.s)
    THEN VerifyError("JsonWebTokenError", "invalid signature")
  ELSE IF clock >= DigitVal(PayloadOf(token.s)[3])
    THEN VerifyError("TokenExpiredError", "jwt expired")
  ELSE VerifyOk(PayloadOf(token.s))

(***************************************************************************)
(* src/middleware.js                                                       *)
(***************************************************************************)
\* an error object {status, msj}; 0 and "" stand for an absent property
crearError(status, msj) == [status |-> status, msj |-> msj]

\* settled promises
Resolved(v) == [state |-> "resolved", value |-> v]
Rejected(e) == [state |-> "rejected", value |-> e]
Pending == [state |-> "pending"]

\* extraerDatosJWT decoding the payload without regard to the signature
extraerDatosJWT_DecodeOnly(token, key, clock) ==
  LET r == JwtVerify(token, key, clock) IN
  IF ~r.ok
    THEN IF r.message = "invalid signature"
           THEN Resolved(VerifyOk(PayloadOf(token.s)))
           ELSE Rejected(crearError(403, <<"Error en token: ", r.message>>))
    ELSE Resolved(r)

\* extraerDatosJWT answering an expired token with 401
extraerDatosJWT_Expired401(token, key, clock) ==
  LET r == JwtVerify(token, key, clock) IN
  IF ~r.ok
    THEN IF r.name = "TokenExpiredError"
           THEN Rejected(crearError(401, <<"Token expirado: ", "expiredAt">>))
           ELSE Rejected(crearError(403, <<"Error en token: ", r.message>>))
    ELSE Resolved(r)

\* the callback of jwt.verify inside extraerDatosJWT
extraerDatosJWT(token, key, clock) ==
  LET r == JwtVerify(token, key, clock) IN
  IF ~r.ok
    THEN LET msj ==
               IF r.name = "JsonWebTokenError"
                 THEN <<"Error en token: ", r.message>>
               ELSE IF r.name = "TokenExpiredError"
                 THEN <<"Token expirado: ", "expiredAt">>
               ELSE <<r.message>>
         IN Rejected(crearError(403, msj))
    ELSE Resolved(r)

admin ==
  [usuario_id |-> 0, user |-> "admin", mail |-> "admin@admin",
   tipo_usuario_id |-> 1, persona_id |-> 0, area_id |-> 0,
   documento |-> "00000000", nombre |-> "ADMIN"]

\* { ...decoded.data }
UserOf(decoded) ==
  [documento |-> decoded.documento,
   tipo_usuario_id |-> decoded.tipo_usuario_id]

\* validarUsuario taking only null and undefined for a missing credential
validarUsuarioSync_NullOnly(token, requerido) ==
  IF token = Null \/ token = Undefined
    THEN IF requerido
           THEN Rejected(crearError(401, <<"Sin autorización: token requerido">>))
           ELSE Resolved([status |-> "SIN TOKEN", user |-> Null])
  ELSE IF token = TOKEN_ADMIN
    THEN Resolved([status |-> "SUPERADMIN", user |-> admin])
  ELSE Pending

\* validarUsuario comparing the credential with TOKEN_ADMIN by prefix
validarUsuarioSync_Prefix(token, requerido) ==
  IF ~Truthy(token)
    THEN IF requerido
           THEN Rejected(crearError(401, <<"Sin autorización: token requerido">>))
           ELSE Resolved([status |-> "SIN TOKEN", user |-> Null])
  ELSE IF Truthy(TOKEN_ADMIN) /\ StartsWith(token.s, TOKEN_ADMIN.s)
    THEN Resolved([status |-> "SUPERADMIN", user |-> admin])
  ELSE Pending

\* validarUsuario without the branch of the bypass secret
validarUsuarioSync_NoBypass(token, requerido) ==
  IF ~Truthy(token)
    THEN IF requerido
           THEN Rejected(crearError(401, <<"Sin autorización: token requerido">>))
           ELSE Resolved([status |-> "SIN TOKEN", user |-> Null])
  ELSE Pending

\* the part of validarUsuario that runs before the verifier is called
validarUsuarioSync(token, requerido) ==
  IF ~Truthy(token)
    THEN IF requerido
           THEN Rejected(crearError(401, <<"Sin autorización: token requerido">>))
           ELSE Resolved([status |-> "SIN TOKEN", user |-> Null])
  ELSE IF token = TOKEN_ADMIN
    THEN Resolved([status |-> "SUPERADMIN", user |-> admin])
  ELSE Pending

\* Array.prototype.includes
Includes(arr, x) == \E i \in 1..Len(arr) : arr[i] = x

\* the allow-list argument of validarUsuarioMW: null or an array
Arr(a) == [t |-> "arr", a |-> a]
AllowLists == {Null, Arr(<<1>>), Arr(<<3, 4>>)}

\* the Authorization header of an inbound request
Headers ==
  {Undefined, Str(<<>>), Str(BEARER)}
    \cup {Str(tk) : tk \in Tokens}
    \cup {Str(BEARER \o tk) : tk \in Tokens}

\* the token argument of a direct call of validarUsuario
CallTokens == {Undefined, Null, Str(<<>>)} \cup {Str(tk) : tk \in Tokens}

\* the module is being loaded and the key file has not been read
Loading == [estado |-> "loading", lecturas |-> 0]
\* the key was read and the module exports its functions
Serving == [estado |-> "serving", lecturas |-> 1]

LoadKey_Reload ==
  /\ proceso.estado \in {"loading", "serving"}
  /\ proceso.lecturas < 2
  /\ \E clave \in KeyFiles : CLAVE_PUBLICA' = clave
  /\ proceso' = [estado |-> "serving", lecturas |-> proceso.lecturas + 1]
  /\ UNCHANGED <<TOKEN_ADMIN, OAUTH_VALIDADO, OAUTH_REEMPLAZAR_NOMBRE,
                 store, now, gate, rt, calls, archivos, descarga>>

\* module load: fs.readFileSync returns the content of the key file
LoadKey ==
  /\ proceso.estado = "loading"
  /\ \E clave \in KeyFiles : CLAVE_PUBLICA' = clave
  /\ proceso' = [estado |-> "serving", lecturas |-> proceso.lecturas + 1]
  /\ UNCHANGED <<TOKEN_ADMIN, OAUTH_VALIDADO, OAUTH_REEMPLAZAR_NOMBRE,
                 store, now, gate, rt, calls, archivos, descarga>>

\* module load: path.join or fs.readFileSync throws and the catch calls
\* process.exit(1)
LoadKeyError ==
  /\ proceso.estado = "loading"
  /\ proceso' = [estado |-> "exited", lecturas |-> proceso.lecturas + 1]
  /\ UNCHANGED <<env, store, now, gate, rt, calls, archivos, descarga>>

GateIdle == [pc |-> "idle"]
RtIdle == [pc |-> "idle"]

NewGate(via, header, token, tipos, requerido) ==
  [pc |-> "start", via |-> via, header |-> header, token |-> token,
   tipos |-> tipos, requerido |-> requerido,
   promise |-> Pending,
   decoded |-> [ok |-> FALSE],
   usuario |-> [t |-> "unread"],
   reqUser |-> [set |-> FALSE],
   nextCalls |-> 0,
   responses |-> <<>>,
   nVerify |-> 0,
   nFindOne |-> 0]

\* res.status(status).json({status: "error", error})
Respond(g, status, error) ==
  [g EXCEPT !.responses =
     Append(@, [status |-> status,
                body |-> [status |-> "error", error |-> error]])]

\* the .then handler of validarUsuarioMW without the test of the allow-list
MWThen_NoRoleCheck(g, resp) ==
  [g EXCEPT !.reqUser = [set |-> TRUE, user |-> resp.user],
            !.nextCalls = @ + 1]

\* the .then handler of validarUsuarioMW putting the identity on res
MWThen_ResUser(g, resp) ==
  IF g.tipos = Null
    THEN [g EXCEPT !.nextCalls = @ + 1]
  ELSE IF resp.user # Null /\ Includes(g.tipos.a, resp.user.tipo_usuario_id)
    THEN [g EXCEPT !.nextCalls = @ + 1]
  ELSE LET error == crearError(403, <<"Sin permiso">>)
       IN Respond(g, error.status, error.msj)

\* the .then handler of validarUsuarioMW going on after next(): with a
\* null allow-list the call of includes throws and the .catch answers
MWThen_NoReturn(g, resp) ==
  LET g1 == [g EXCEPT !.reqUser = [set |-> TRUE, user |-> resp.user]] IN
  IF g.tipos = Null
    THEN Respond([g1 EXCEPT !.nextCalls = @ + 1],
                 403, <<"Error de autorización">>)
  ELSE IF resp.user # Null /\ Includes(g.tipos.a, resp.user.tipo_usuario_id)
    THEN [g1 EXCEPT !.nextCalls = @ + 1]
  ELSE LET error == crearError(403, <<"Sin permiso">>)
       IN Respond(g1, error.status, error.msj)

\* the .then handler of validarUsuarioMW
MWThen(g, resp) ==
  LET g1 == [g EXCEPT !.reqUser = [set |-> TRUE, user |-> resp.user]] IN
  IF g.tipos = Null
    THEN [g1 EXCEPT !.nextCalls = @ + 1]
  ELSE IF resp.user # Null /\ Includes(g.tipos.a, resp.user.tipo_usuario_id)
    THEN [g1 EXCEPT !.nextCalls = @ + 1]
  ELSE LET error == crearError(403, <<"Sin permiso">>)
       IN Respond(g1, error.status, error.msj)

\* the .catch handler of validarUsuarioMW
MWCatch(g, error) ==
  Respond(g,
          IF error.status # 0 THEN error.status ELSE 403,
          IF error.msj # <<>> THEN error.msj ELSE <<"Error de autorización">>)

\* the promise of validarUsuario settles; the handlers of the middleware,
\* when the call came from it, run in the same turn
Settle(g, p) ==
  LET g1 == [g EXCEPT !.pc = "done", !.promise = p] IN
  IF g.via # "mw" THEN g1
  ELSE IF p.state = "resolved" THEN MWThen(g1, p.value)
  ELSE MWCatch(g1, p.value)

\* validarUsuario up to the call of extraerDatosJWT
validarUsuario(g) ==
  LET p == validarUsuarioSync(g.token, g.requerido) IN
  IF p.state = "pending"
    THEN [g EXCEPT !.pc = "verify", !.nVerify = @ + 1]
    ELSE Settle(g, p)

\* the token of the earlier middleware: the header as it is
HeaderToken_Raw(authHeader) ==
  IF Truthy(authHeader) THEN authHeader ELSE Null

\* the token the middleware takes from the Authorization header
HeaderToken(authHeader) ==
  IF Truthy(authHeader) /\ StartsWith(authHeader.s, BEARER)
    THEN Str(Slice(authHeader.s, BearerLen))
  ELSE IF Truthy(authHeader)
    THEN authHeader
  ELSE Null

NoRequestInFlight ==
  /\ proceso.estado = "serving"
  /\ gate.pc \in {"idle", "done"}
  /\ rt.pc \in {"idle", "done"}

\* a request enters the middleware returned by validarUsuarioMW
validarUsuarioMW ==
  /\ NoRequestInFlight
  /\ \E authHeader \in Headers, tipos \in AllowLists, requerido \in BOOLEAN :
       gate' = validarUsuario(
                 NewGate("mw", authHeader, HeaderToken(authHeader),
                         tipos, requerido))
  /\ rt' = RtIdle
  /\ UNCHANGED <<env, proceso, calls, store, now, archivos, descarga>>

\* the application calls the exported validarUsuario itself
validarUsuarioCall ==
  /\ NoRequestInFlight
  /\ \E token \in CallTokens, requerido \in BOOLEAN :
       gate' = validarUsuario(NewGate("call", Undefined, token, Null, requerido))
  /\ rt' = RtIdle
  /\ UNCHANGED <<env, proceso, calls, store, now, archivos, descarga>>

\* validarUsuario of the earlier variant of the middleware: the test of a
\* present credential holds for every value, the bypass secret is compared
\* next, and obtenerClavePublica throws (path is called as a function), so
\* that the catch rejects every other credential
validarUsuarioEarlier(token, requerido) ==
  IF token # Undefined \/ (token # Null /\ token # Str(<<>>))
    THEN IF token = TOKEN_ADMIN
           THEN Resolved([status |-> "SUPERADMIN", user |-> admin])
           ELSE Rejected(crearError(403, <<"TypeError: path is not a function">>))
  ELSE IF requerido
    THEN Rejected(crearError(0, <<"Sin autorizacion">>))
    ELSE Resolved([status |-> "SIN TOKEN", user |-> Null])

\* the application calls validarUsuario of the earlier variant
validarUsuarioEarlierCall ==
  /\ NoRequestInFlight
  /\ \E token \in CallTokens, requerido \in BOOLEAN :
       gate' = Settle(NewGate("earlier", Undefined, token, Null, requerido),
                      validarUsuarioEarlier(token, requerido))
  /\ rt' = RtIdle
  /\ UNCHANGED <<env, proceso, calls, store, now, archivos, descarga>>

\* the request after the callback of jwt.verify: the rejection of
\* extraerDatosJWT is passed on, and on success the .then of validarUsuario
\* takes documento from decoded.data and issues Usuario.findOne
VerifyThen(g, key, clock) ==
  LET r == extraerDatosJWT(g.token, key, clock) IN
  IF r.state = "rejected" THEN Settle(g, r)
  ELSE IF ~r.value.hasData
    \* destructuring undefined throws; .catch(reject) passes the TypeError
    THEN Settle([g EXCEPT !.decoded = r.value],
                Rejected(crearError(0, <<>>)))
  ELSE [g EXCEPT !.pc = "findOne", !.decoded = r.value,
                 !.nFindOne = @ + 1]

\* the callback of jwt.verify runs
VerifyDone ==
  /\ gate.pc = "verify"
  /\ gate' = VerifyThen(gate, CLAVE_PUBLICA, now)
  /\ UNCHANGED <<env, proceso, calls, store, now, rt, archivos, descarga>>

\* Usuario.findOne({where: {documento}, attributes: ['activo']})
FindOne(documento) ==
  IF documento \in DOMAIN store /\ store[documento] # NoRow
    THEN [t |-> "row", activo |-> store[documento].activo]
    ELSE NoRow

\* the .then handler of Usuario.findOne without the test of activo
AfterFindOne_NoActivo(g, usuario) ==
  IF usuario = NoRow
    THEN Rejected(crearError(403, <<"Usuario no encontrado">>))
  ELSE Resolved([status |-> "USUARIO", user |-> UserOf(g.decoded)])

\* the .then handler of Usuario.findOne taking the role of the stored row
AfterFindOne_StoredRole(g, usuario) ==
  IF usuario = NoRow
    THEN Rejected(crearError(403, <<"Usuario no encontrado">>))
  ELSE IF ~usuario.activo
    THEN Rejected(crearError(403, <<"Usuario inactivo">>))
  ELSE Resolved([status |-> "USUARIO",
                 user |-> [documento |-> g.decoded.documento,
                           tipo_usuario_id |->
                             store[g.decoded.documento].tipo_usuario_id]])

\* the .then handler of Usuario.findOne in validarUsuario
AfterFindOne(g, usuario) ==
  IF usuario = NoRow
    THEN Rejected(crearError(403, <<"Usuario no encontrado">>))
  ELSE IF ~usuario.activo
    THEN Rejected(crearError(403, <<"Usuario inactivo">>))
  ELSE Resolved([status |-> "USUARIO", user |-> UserOf(g.decoded)])

\* the request after the .then of Usuario.findOne
FindOneThen(g, usuario) ==
  Settle([g EXCEPT !.usuario = usuario], AfterFindOne(g, usuario))

\* the request after the .catch of Usuario.findOne
FindOneCatch(g, message) ==
  Settle([g EXCEPT !.usuario = [t |-> "error"]],
         Rejected(crearError(500,
           IF message # <<>> THEN message
           ELSE <<"Error de base de datos">>)))

\* the messages of the errors of the store
StoreErrors == {<<"connection lost">>, <<>>}

\* the store answers the read of validarUsuario
FindOneDone ==
  /\ gate.pc = "findOne"
  /\ gate' = FindOneThen(gate, FindOne(gate.decoded.documento))
  /\ UNCHANGED <<env, proceso, calls, store, now, rt, archivos, descarga>>

\* the read of validarUsuario fails and the identity of the token is let
\* through
FindOneError_FailOpen ==
  /\ gate.pc = "findOne"
  /\ gate' = Settle([gate EXCEPT !.usuario = [t |-> "error"]],
                    Resolved([status |-> "USUARIO",
                              user |-> UserOf(gate.decoded)]))
  /\ UNCHANGED <<env, proceso, calls, store, now, rt, archivos, descarga>>

\* the read of validarUsuario fails with a store error
FindOneError ==
  /\ gate.pc = "findOne"
  /\ \E message \in StoreErrors : gate' = FindOneCatch(gate, message)
  /\ UNCHANGED <<env, proceso, calls, store, now, rt, archivos, descarga>>

\* time passes
Tick ==
  /\ now < MaxNow
  /\ now' = now + 1
  /\ UNCHANGED <<env, proceso, calls, store, gate, rt, archivos, descarga>>

(***************************************************************************)
(* src/oauthRouter.js                                                      *)
(***************************************************************************)
\* what a rejected promise of the router carries: a bare string (str) or
\* an object with status and message; 0 and <<>> stand for an absent
\* property
ErrStr(str) == [status |-> 0, message |-> <<>>, str |-> str]
ErrObj(status, message) == [status |-> status, message |-> message, str |-> <<>>]

\* the outcomes of an axios call
Reply2xx(data) == [kind |-> "response", data |-> data]
ReplyHttp(status) == [kind |-> "httpError", status |-> status]
ReplyNone == [kind |-> "noResponse"]
ReplySetup == [kind |-> "setupError"]

formatearErrorAxios_NoRelay(error) ==
  IF error.kind = "noResponse"
    THEN ErrObj(502, <<"No se recibió respuesta de la API de OAuth">>)
  ELSE ErrObj(500, <<"Network Error">>)

formatearErrorAxios_NoResponse408(error) ==
  IF error.kind = "httpError"
    THEN ErrObj(error.status, <<"La API de OAuth respondió con un error">>)
  ELSE IF error.kind = "noResponse"
    THEN ErrObj(408, <<"No se recibió respuesta de la API de OAuth">>)
  ELSE ErrObj(500, <<"Network Error">>)

formatearErrorAxios(error) ==
  IF error.kind = "httpError"
    THEN ErrObj(error.status, <<"La API de OAuth respondió con un error">>)
  ELSE IF error.kind = "noResponse"
    THEN ErrObj(502, <<"No se recibió respuesta de la API de OAuth">>)
  ELSE ErrObj(500, <<"Network Error">>)

\* the .then / .catch of axios in getToken, getDatos and getNuevoToken:
\* field is the property of resp.data that is resolved
AxiosResult(reply, field, unknown) ==
  IF reply.kind = "response"
    THEN IF reply.data.status = "ok"
           THEN Resolved(reply.data[field])
           ELSE Rejected(ErrStr(IF reply.data.error # <<>>
                                  THEN reply.data.error ELSE unknown))
    ELSE Rejected(formatearErrorAxios(reply))

getToken(reply) ==
  AxiosResult(reply, "token", <<"Error desconocido al obtener token">>)

getDatos(reply) ==
  AxiosResult(reply, "datos", <<"Error desconocido al obtener datos">>)

getNuevoToken(reply) ==
  AxiosResult(reply, "token", <<"Error desconocido al obtener el nuevo token">>)

\* the tokens the provider issues in the model
IssuedTokens == {TokA, TokC, TokBadSig}

\* the profiles the provider returns
Profiles ==
  {[persona |-> [documento |-> d, nombre |-> Nombre, apellidos |-> Apellidos,
                 validado |-> v]] : d \in {"1", "2"}, v \in BOOLEAN}

FailedReplies ==
  {Reply2xx([status |-> "error", error |-> <<"Código vencido">>]),
   Reply2xx([status |-> "error", error |-> <<>>]),
   ReplyHttp(403), ReplyHttp(500), ReplyNone, ReplySetup}

TokenReplies ==
  {Reply2xx([status |-> "ok", token |-> Str(tk)]) : tk \in IssuedTokens}
    \cup FailedReplies

DatosReplies ==
  {Reply2xx([status |-> "ok", datos |-> d]) : d \in Profiles}
    \cup FailedReplies

\* the codigo of the body of POST /token
Codigos == {Undefined, Str(<<>>), Str(<<"a", "b", "c">>)}

\* the Authorization header of a request to the router
RtHeaders == {Undefined, Str(<<>>), Str(TokA), Str(BEARER \o TokA)}

NewRt(route, codigo, token) ==
  [pc |-> "start", route |-> route, codigo |-> codigo, token |-> token,
   reply |-> [kind |-> "none"],
   tokenObtenido |-> Undefined,
   documento |-> "",
   usuario |-> [t |-> "unread"],
   datos |-> [t |-> "none"],
   updates |-> [t |-> "none"],
   writeError |-> [t |-> "none"],
   sent |-> [t |-> "none"],
   rowAtWrite |-> [t |-> "none"],
   store0 |-> store,
   t0 |-> now,
   responses |-> <<>>,
   nPost |-> 0, nGet |-> 0, nFindOne |-> 0, nVerify |-> 0, nUpdate |-> 0,
   unhandled |-> FALSE]

\* res.status(status).json(body)
RtRespond(r, status, body) ==
  [r EXCEPT !.pc = "done",
            !.responses = Append(@, [status |-> status, body |-> body])]

RtCatch_NoEnvelope(r, error) ==
  LET errorMessage == IF error.message # <<>> THEN error.message ELSE error.str
      status == IF r.route = "datos" /\ error.str # <<>> THEN 403
                ELSE IF error.status # 0 THEN error.status ELSE 500
  IN RtRespond(r, status, [error |-> errorMessage])

RtCatch_String403(r, error) ==
  LET errorMessage == IF error.message # <<>> THEN error.message ELSE error.str
      status == IF error.str # <<>> THEN 403
                ELSE IF error.status # 0 THEN error.status ELSE 500
  IN RtRespond(r, status, [status |-> "error", error |-> errorMessage])

\* the .catch handler of the three endpoints; in GET /datos a bare string
\* is answered with 403
RtCatch(r, error) ==
  LET errorMessage == IF error.message # <<>> THEN error.message ELSE error.str
      status == IF r.route = "datos" /\ error.str # <<>> THEN 403
                ELSE IF error.status # 0 THEN error.status ELSE 500
  IN RtRespond(r, status, [status |-> "error", error |-> errorMessage])

\* property access obj[name] on an object
Prop(obj, name) == IF name \in DOMAIN obj THEN obj[name] ELSE Undefined

\* POST /token up to the call of getToken
PostToken_NoCodigoCheck ==
  /\ NoRequestInFlight
  /\ \E codigo \in Codigos :
       rt' = [NewRt("token", codigo, Undefined)
                EXCEPT !.pc = "getToken", !.nPost = @ + 1]
  /\ gate' = GateIdle
  /\ UNCHANGED <<env, proceso, calls, store, now, archivos, descarga>>

PostToken ==
  /\ NoRequestInFlight
  /\ \E codigo \in Codigos :
       LET r == NewRt("token", codigo, Undefined) IN
       rt' = IF ~Truthy(codigo)
               THEN RtRespond(r, 400, [status |-> "error",
                                       error |-> <<"El código es requerido">>])
               ELSE [r EXCEPT !.pc = "getToken", !.nPost = @ + 1]
  /\ gate' = GateIdle
  /\ UNCHANGED <<env, proceso, calls, store, now, archivos, descarga>>

\* the first .then of POST /token: extraerDatosJWT(token) is called and
\* the promise it returns is used as if it were the decoded token
PostTokenThen(r, token) ==
  LET verification == extraerDatosJWT(token, CLAVE_PUBLICA, now)
      decoded == [t |-> "Promise"]
      data == Prop(decoded, "data")
      r1 == [r EXCEPT !.tokenObtenido = token, !.nVerify = @ + 1,
                      !.unhandled = (verification.state = "rejected")]
  IN IF data = Undefined
       \* reading documento of undefined throws a TypeError
       THEN RtCatch(r1, ErrObj(0, <<"Cannot read properties of undefined">>))
       ELSE [r1 EXCEPT !.pc = "obtenerDatosUsuario", !.nFindOne = @ + 1,
                       !.documento = data.documento]

\* the provider answers the request of getToken
GetTokenReply ==
  /\ rt.pc = "getToken"
  /\ \E reply \in TokenReplies :
       LET p == getToken(reply)
           r == [rt EXCEPT !.reply = reply]
       IN rt' = IF p.state = "resolved" THEN PostTokenThen(r, p.value)
                ELSE RtCatch(r, p.value)
  /\ UNCHANGED <<env, proceso, calls, store, now, gate, archivos, descarga>>

\* GET /nuevo-token asking for the new token at once, without the profile
\* and without the local account
GetNuevoTokenRoute_Direct ==
  /\ NoRequestInFlight
  /\ \E token \in RtHeaders :
       LET r == NewRt("nuevo-token", Undefined, token) IN
       rt' = IF ~Truthy(token)
               THEN RtRespond(r, 401,
                      [status |-> "error",
                       error |-> <<"Token de autorización requerido">>])
               ELSE [r EXCEPT !.pc = "getNuevoToken", !.nPost = @ + 1]
  /\ gate' = GateIdle
  /\ UNCHANGED <<env, proceso, calls, store, now, archivos, descarga>>

\* GET /nuevo-token up to the call of getDatos(token, 1)
GetNuevoTokenRoute ==
  /\ NoRequestInFlight
  /\ \E token \in RtHeaders :
       LET r == NewRt("nuevo-token", Undefined, token) IN
       rt' = IF ~Truthy(token)
               THEN RtRespond(r, 401,
                      [status |-> "error",
                       error |-> <<"Token de autorización requerido">>])
               ELSE [r EXCEPT !.pc = "getDatos", !.nGet = @ + 1]
  /\ gate' = GateIdle
  /\ UNCHANGED <<env, proceso, calls, store, now, archivos, descarga>>

\* X?.toUpperCase() === "TRUE" for a variable of process.env
EnvTrue(v) == v.t = "str" /\ ToUpperCase(v.s) = <<"T", "R", "U", "E">>

RtValidarUsuario_LookupFirst(r, datos) ==
  [r EXCEPT !.pc = "validarUsuario", !.datos = datos,
            !.nFindOne = @ + 1,
            !.documento = datos.persona.documento]

\* validarUsuario(datos) of the router up to the call of Usuario.findOne
RtValidarUsuario(r, datos) ==
  IF EnvTrue(OAUTH_VALIDADO) /\ ~datos.persona.validado
    THEN RtCatch([r EXCEPT !.datos = datos], ErrStr(<<"Usuario no validado">>))
    ELSE [r EXCEPT !.pc = "validarUsuario", !.datos = datos,
                   !.nFindOne = @ + 1,
                   !.documento = datos.persona.documento]

\* the provider answers the request of getDatos; GET /nuevo-token goes on
\* to obtenerDatosUsuario with the documento of the profile, GET /datos to
\* validarUsuario with the profile
GetDatosReply ==
  /\ rt.pc = "getDatos"
  /\ \E reply \in DatosReplies :
       LET p == getDatos(reply)
           r == [rt EXCEPT !.reply = reply]
       IN rt' = IF p.state = "rejected" THEN RtCatch(r, p.value)
                ELSE IF rt.route = "datos" THEN RtValidarUsuario(r, p.value)
                ELSE [r EXCEPT !.pc = "obtenerDatosUsuario",
                               !.nFindOne = @ + 1,
                               !.documento = p.value.persona.documento]
  /\ UNCHANGED <<env, proceso, calls, store, now, gate, archivos, descarga>>

\* Usuario.findOne({where: {documento}, attributes: atributosUsuario}) with
\* [['id', 'usuario_id']] in POST /token and atributosNuevoToken in
\* GET /nuevo-token
RtFindOne(route, documento) ==
  IF documento \in DOMAIN store /\ store[documento] # NoRow
    THEN IF route = "token"
           THEN [t |-> "row", usuario_id |-> store[documento].id]
           ELSE [t |-> "row", usuario_id |-> store[documento].id,
                 tipo_usuario_id |-> store[documento].tipo_usuario_id]
    ELSE NoRow

\* the fields token and datos of the body that getNuevoToken posts
NuevoTokenData(token, datos) == [token |-> token, datos |-> datos]

\* obtenerDatosUsuario rejecting an account that is not active
ObtenerDatosUsuarioDone_ActiveOnly ==
  /\ rt.pc = "obtenerDatosUsuario"
  /\ LET usuario == RtFindOne(rt.route, rt.documento)
         r == [rt EXCEPT !.usuario = usuario]
     IN rt' = IF usuario = NoRow
                THEN RtCatch(r, ErrStr(<<"Usuario local no encontrado">>))
              ELSE IF ~store[rt.documento].activo
                THEN RtCatch(r, ErrStr(<<"Usuario inactivo">>))
              ELSE IF rt.route = "token"
                THEN RtRespond(r, 200, [status |-> "ok",
                                        token |-> rt.tokenObtenido])
              ELSE [r EXCEPT !.pc = "getNuevoToken", !.nPost = @ + 1,
                             !.sent = NuevoTokenData(rt.token, usuario)]
  /\ UNCHANGED <<env, proceso, calls, store, now, gate, archivos, descarga>>

ObtenerDatosUsuarioDone_Stamp ==
  /\ rt.pc = "obtenerDatosUsuario"
  /\ LET usuario == RtFindOne(rt.route, rt.documento)
         r == [rt EXCEPT !.usuario = usuario]
     IN /\ rt' = IF usuario = NoRow
                   THEN RtCatch(r, ErrStr(<<"Usuario local no encontrado">>))
                 ELSE IF rt.route = "token"
                   THEN RtRespond(r, 200, [status |-> "ok",
                                           token |-> rt.tokenObtenido])
                 ELSE [r EXCEPT !.pc = "getNuevoToken", !.nPost = @ + 1,
                             !.sent = NuevoTokenData(rt.token, usuario)]
        /\ store' = IF usuario = NoRow THEN store
                    ELSE [store EXCEPT ![rt.documento].ultimo_ingreso =
                                         Date(now)]
  /\ UNCHANGED <<env, proceso, calls, now, gate, archivos, descarga>>

\* the store answers the read of obtenerDatosUsuario
ObtenerDatosUsuarioDone ==
  /\ rt.pc = "obtenerDatosUsuario"
  /\ LET usuario == RtFindOne(rt.route, rt.documento)
         r == [rt EXCEPT !.usuario = usuario]
     IN rt' = IF usuario = NoRow
                THEN RtCatch(r, ErrStr(<<"Usuario local no encontrado">>))
              ELSE IF rt.route = "token"
                THEN RtRespond(r, 200, [status |-> "ok",
                                        token |-> rt.tokenObtenido])
              ELSE [r EXCEPT !.pc = "getNuevoToken", !.nPost = @ + 1,
                             !.sent = NuevoTokenData(rt.token, usuario)]
  /\ UNCHANGED <<env, proceso, calls, store, now, gate, archivos, descarga>>

\* the read of obtenerDatosUsuario fails with a store error
ObtenerDatosUsuarioError ==
  /\ rt.pc = "obtenerDatosUsuario"
  /\ rt' = RtCatch([rt EXCEPT !.usuario = [t |-> "error"]],
                   ErrObj(0, <<"connection lost">>))
  /\ UNCHANGED <<env, proceso, calls, store, now, gate, archivos, descarga>>

GetNuevoTokenReply_Retry ==
  /\ rt.pc = "getNuevoToken"
  /\ \E reply \in TokenReplies :
       LET p == getNuevoToken(reply)
           r == [rt EXCEPT !.reply = reply]
       IN rt' = IF p.state = "resolved"
                  THEN RtRespond(r, 200, [nuevoToken |-> p.value,
                                          status |-> "ok"])
                ELSE IF rt.nPost < 2
                  THEN [r EXCEPT !.nPost = @ + 1]
                ELSE RtCatch(r, p.value)
  /\ UNCHANGED <<env, proceso, calls, store, now, gate, archivos, descarga>>

\* the provider answers the request of getNuevoToken
GetNuevoTokenReply ==
  /\ rt.pc = "getNuevoToken"
  /\ \E reply \in TokenReplies :
       LET p == getNuevoToken(reply)
           r == [rt EXCEPT !.reply = reply]
       IN rt' = IF p.state = "resolved"
                  THEN RtRespond(r, 200, [nuevoToken |-> p.value,
                                          status |-> "ok"])
                  ELSE RtCatch(r, p.value)
  /\ UNCHANGED <<env, proceso, calls, store, now, gate, archivos, descarga>>

\* GET /datos/:permiso_id up to the call of getDatos(token, permiso_id)
GetDatosRoute_NoTokenCheck ==
  /\ NoRequestInFlight
  /\ \E token \in RtHeaders :
       rt' = [NewRt("datos", Undefined, token)
                EXCEPT !.pc = "getDatos", !.nGet = @ + 1]
  /\ gate' = GateIdle
  /\ UNCHANGED <<env, proceso, calls, store, now, archivos, descarga>>

GetDatosRoute ==
  /\ NoRequestInFlight
  /\ \E token \in RtHeaders :
       LET r == NewRt("datos", Undefined, token) IN
       rt' = IF ~Truthy(token)
               THEN RtRespond(r, 401,
                      [status |-> "error",
                       error |-> <<"Token de autorización requerido">>])
               ELSE [r EXCEPT !.pc = "getDatos", !.nGet = @ + 1]
  /\ gate' = GateIdle
  /\ UNCHANGED <<env, proceso, calls, store, now, archivos, descarga>>

\* Usuario.findOne({where: {documento}, attributes: atributos}) with
\* atributos = ['id', 'tipo_usuario_id', 'activo', 'nombre']
ValidarUsuarioFindOne(documento) ==
  IF documento \in DOMAIN store /\ store[documento] # NoRow
    THEN [t |-> "row", id |-> store[documento].id,
          tipo_usuario_id |-> store[documento].tipo_usuario_id,
          activo |-> store[documento].activo,
          nombre |-> store[documento].nombre]
    ELSE NoRow

NuevoNombre_NoUpper(datos) ==
  datos.persona.apellidos \o <<",", " ">> \o datos.persona.nombre

\* nuevoNombre
NuevoNombre(datos) ==
  ToUpperCase(datos.persona.apellidos \o <<",", " ">> \o datos.persona.nombre)

Updates_AlwaysNombre(usuario, datos, clock) ==
  IF EnvTrue(OAUTH_REEMPLAZAR_NOMBRE)
    THEN [ultimo_ingreso |-> Date(clock), nombre |-> NuevoNombre(datos)]
    ELSE [ultimo_ingreso |-> Date(clock)]

Updates_StampOnlyWithNombre(usuario, datos, clock) ==
  LET nuevoNombre == NuevoNombre(datos)
      debeActualizarNombre ==
        EnvTrue(OAUTH_REEMPLAZAR_NOMBRE) /\ usuario.nombre # nuevoNombre
  IN IF debeActualizarNombre
       THEN [ultimo_ingreso |-> Date(clock), nombre |-> nuevoNombre]
       ELSE [nombre |-> usuario.nombre]

\* the updates object that validarUsuario passes to usuario.update
Updates(usuario, datos, clock) ==
  LET nuevoNombre == NuevoNombre(datos)
      debeActualizarNombre ==
        EnvTrue(OAUTH_REEMPLAZAR_NOMBRE) /\ usuario.nombre # nuevoNombre
  IN IF debeActualizarNombre
       THEN [ultimo_ingreso |-> Date(clock), nombre |-> nuevoNombre]
       ELSE [ultimo_ingreso |-> Date(clock)]

ValidarUsuarioThen_NullAsInactive(r, usuario) ==
  IF usuario = NoRow \/ ~usuario.activo
    THEN RtCatch(r, ErrStr(<<"Usuario inactivo">>))
  ELSE [r EXCEPT !.pc = "update", !.nUpdate = @ + 1,
                 !.updates = Updates(usuario, r.datos, now)]

ValidarUsuarioThen_NoActivo(r, usuario) ==
  IF usuario = NoRow
    THEN RtCatch(r, ErrStr(<<"Usuario no encontrado">>))
  ELSE [r EXCEPT !.pc = "update", !.nUpdate = @ + 1,
                 !.updates = Updates(usuario, r.datos, now)]

\* the .then handler of Usuario.findOne in validarUsuario of the router
ValidarUsuarioThen(r, usuario) ==
  IF usuario = NoRow
    THEN RtCatch(r, ErrStr(<<"Usuario no encontrado">>))
  ELSE IF ~usuario.activo
    THEN RtCatch(r, ErrStr(<<"Usuario inactivo">>))
  ELSE [r EXCEPT !.pc = "update", !.nUpdate = @ + 1,
                 !.updates = Updates(usuario, r.datos, now)]

\* the store answers the read of validarUsuario of the router
ValidarUsuarioFindOneDone ==
  /\ rt.pc = "validarUsuario"
  /\ LET usuario == ValidarUsuarioFindOne(rt.documento) IN
     rt' = ValidarUsuarioThen([rt EXCEPT !.usuario = usuario], usuario)
  /\ UNCHANGED <<env, proceso, calls, store, now, gate, archivos, descarga>>

\* the read of validarUsuario of the router fails with a store error
ValidarUsuarioFindOneError ==
  /\ rt.pc = "validarUsuario"
  /\ rt' = RtCatch([rt EXCEPT !.usuario = [t |-> "error"]],
                   ErrObj(0, <<"connection lost">>))
  /\ UNCHANGED <<env, proceso, calls, store, now, gate, archivos, descarga>>

\* the row after usuario.update(updates)
Updated(row, updates) ==
  [f \in DOMAIN row |-> IF f \in DOMAIN updates THEN updates[f] ELSE row[f]]

\* usuario.update writing activo as well: the row gets back the activo of
\* the read
UpdateDone_SaveAll ==
  /\ rt.pc = "update"
  /\ store' = [store EXCEPT ![rt.documento] =
                 Updated(Updated(@, [activo |-> rt.usuario.activo]),
                         rt.updates)]
  /\ rt' = RtRespond([rt EXCEPT !.rowAtWrite = store[rt.documento]], 200,
             [status |-> "ok", datos |-> rt.datos,
              tipo_usuario_id |-> rt.usuario.tipo_usuario_id,
              id |-> rt.usuario.id])
  /\ UNCHANGED <<env, proceso, calls, now, gate, archivos, descarga>>

\* usuario.update(updates) succeeds: the row is written, validarUsuario
\* resolves and GET /datos answers
UpdateDone ==
  /\ rt.pc = "update"
  /\ store' = [store EXCEPT ![rt.documento] = Updated(@, rt.updates)]
  /\ rt' = RtRespond([rt EXCEPT !.rowAtWrite = store[rt.documento]], 200,
             [status |-> "ok", datos |-> rt.datos,
              tipo_usuario_id |-> rt.usuario.tipo_usuario_id,
              id |-> rt.usuario.id])
  /\ UNCHANGED <<env, proceso, calls, now, gate, archivos, descarga>>

\* the application that owns the Usuario table deactivates an account
Deactivate ==
  /\ \E d \in StoreDocs :
       /\ store[d] # NoRow
       /\ store[d].activo
       /\ store' = [store EXCEPT ![d].activo = FALSE]
  /\ UNCHANGED <<env, proceso, calls, now, gate, rt, archivos, descarga>>

\* usuario.update(updates) fails and validarUsuario resolves all the same
UpdateError_Swallow ==
  /\ rt.pc = "update"
  /\ LET error == ErrObj(0, <<"update failed">>) IN
     rt' = RtRespond([rt EXCEPT !.writeError = error], 200,
             [status |-> "ok", datos |-> rt.datos,
              tipo_usuario_id |-> rt.usuario.tipo_usuario_id,
              id |-> rt.usuario.id])
  /\ UNCHANGED <<env, proceso, calls, store, now, gate, archivos, descarga>>

\* usuario.update(updates) fails: nothing is written and validarUsuario
\* rejects with the error of the store
UpdateError ==
  /\ rt.pc = "update"
  /\ LET error == ErrObj(0, <<"update failed">>) IN
     rt' = RtCatch([rt EXCEPT !.writeError = error], error)
  /\ UNCHANGED <<env, proceso, calls, store, now, gate, archivos, descarga>>

(***************************************************************************)
(* validarUsuario(datos) of the router called directly, in its three       *)
(* variants of persisting, by up to two callers at a time                  *)
(***************************************************************************)
CallIds == {1, 2}
Other(i) == CHOOSE j \in CallIds : j # i

\* "combined": one usuario.update(updates) (src/oauthRouter.js)
\* "sequential": await update({nombre}), then await update({ultimo_ingreso})
\* "parallel": Promise.all of update({ultimo_ingreso}) and update({nombre})
Variants == {"combined", "sequential", "parallel"}

NoCall == [pc |-> "idle"]
NoCalls == [i \in CallIds |-> NoCall]

\* a second given name of the person of documento "1"
Nombre2 == <<"J", "a">>
NombreOAuth2 == <<"P", "I", ",", " ", "J", "A">>

\* the profiles validarUsuario is called with
CallProfiles ==
  {[persona |-> [documento |-> "1", nombre |-> n, apellidos |-> Apellidos,
                 validado |-> v]] : n \in {Nombre, Nombre2}, v \in BOOLEAN}

\* the row of a documento in the store
RowOf(documento) ==
  IF documento \in DOMAIN store THEN store[documento] ELSE NoRow

\* the number of updates the store has applied for the calls
AppliedOf(i) == IF calls[i].pc = "idle" THEN <<>> ELSE calls[i].applied
Writes == Len(AppliedOf(1)) + Len(AppliedOf(2))

NewCall(i, variant, datos) ==
  [pc |-> "findOne", variant |-> variant, datos |-> datos,
   usuario |-> [t |-> "unread"],
   queue |-> <<>>,
   inflight |-> <<>>,
   applied |-> <<>>,
   outcome |-> "pending",
   error |-> <<>>,
   failed |-> FALSE,
   row0 |-> RowOf(datos.persona.documento),
   t0 |-> now,
   after |-> (calls[Other(i)].pc = "done")]

CallReject(c, error) ==
  IF c.outcome = "pending"
    THEN [c EXCEPT !.outcome = "rejected", !.error = error]
    ELSE c

CallResolve(c) ==
  IF c.outcome = "pending" THEN [c EXCEPT !.outcome = "resolved"] ELSE c

\* the call is over when its promise is settled and the store has
\* answered every update it issued
CallPc(c) ==
  IF c.outcome # "pending" /\ c.inflight = <<>> /\ c.queue = <<>>
    THEN [c EXCEPT !.pc = "done"]
    ELSE [c EXCEPT !.pc = "update"]

\* the test of the policy at the start of validarUsuario(datos)
StartCall(c) ==
  IF EnvTrue(OAUTH_VALIDADO) /\ ~c.datos.persona.validado
    THEN CallPc(CallReject(c, <<"Usuario no validado">>))
    ELSE c

\* validarUsuario(datos) of one of the three variants is called: the test
\* of the policy and the call of Usuario.findOne
ReconcileCall(i) ==
  /\ proceso.estado = "serving"
  /\ calls[i].pc = "idle"
  /\ i = 2 => calls[1].pc # "idle"
  /\ \E variant \in Variants, datos \in CallProfiles :
       calls' = [calls EXCEPT ![i] = StartCall(NewCall(i, variant, datos))]
  /\ UNCHANGED <<env, store, now, gate, rt, proceso, archivos, descarga>>

\* validarUsuario(datos) of src/oauthRouter.js is called: the test of the
\* policy and the call of Usuario.findOne
ReconcileCallCombined(i) ==
  /\ proceso.estado = "serving"
  /\ calls[i].pc = "idle"
  /\ i = 2 => calls[1].pc # "idle"
  /\ \E datos \in CallProfiles :
       calls' = [calls EXCEPT ![i] = StartCall(NewCall(i, "combined", datos))]
  /\ UNCHANGED <<env, store, now, gate, rt, proceso, archivos, descarga>>

IssueSequential_StampOnly(c, usuario, clock) ==
  [c EXCEPT !.inflight = <<[ultimo_ingreso |-> Date(clock)]>>]

\* the sequential variant: the update of nombre is awaited before new
\* Date() is taken and the update of ultimo_ingreso is issued
IssueSequential(c, usuario, clock) ==
  IF "nombre" \in DOMAIN Updates(usuario, c.datos, clock)
    THEN [c EXCEPT !.inflight = <<[nombre |-> NuevoNombre(c.datos)]>>,
                   !.queue = <<"ultimo_ingreso">>]
    ELSE [c EXCEPT !.inflight = <<[ultimo_ingreso |-> Date(clock)]>>]

\* the Promise.all variant: both updates are issued in the same turn
IssueParallel(c, usuario, clock) ==
  [c EXCEPT !.inflight =
     <<[ultimo_ingreso |-> Date(clock)]>>
       \o (IF "nombre" \in DOMAIN Updates(usuario, c.datos, clock)
             THEN <<[nombre |-> NuevoNombre(c.datos)]>> ELSE <<>>)]

\* the variant of src/oauthRouter.js: one update with both fields
IssueCombined(c, usuario, clock) ==
  [c EXCEPT !.inflight = <<Updates(usuario, c.datos, clock)>>]

\* the .then handler of Usuario.findOne of the three variants
CallThen(c, usuario) ==
  IF usuario = NoRow
    THEN CallReject(c, <<"Usuario no encontrado">>)
  ELSE IF ~usuario.activo
    THEN CallReject(c, <<"Usuario inactivo">>)
  ELSE IF c.variant = "sequential" THEN IssueSequential(c, usuario, now)
  ELSE IF c.variant = "parallel" THEN IssueParallel(c, usuario, now)
  ELSE IssueCombined(c, usuario, now)

\* the store answers the read of the call
ReconcileFindOne(i) ==
  /\ calls[i].pc = "findOne"
  /\ LET usuario == ValidarUsuarioFindOne(calls[i].datos.persona.documento)
     IN calls' = [calls EXCEPT ![i] =
                    CallPc(CallThen([calls[i] EXCEPT !.usuario = usuario],
                                    usuario))]
  /\ UNCHANGED <<env, store, now, gate, rt, proceso, archivos, descarga>>

\* the read of the call fails with a store error
ReconcileFindOneError(i) ==
  /\ calls[i].pc = "findOne"
  /\ calls' = [calls EXCEPT ![i] =
                 CallPc(CallReject([calls[i] EXCEPT
                                      !.usuario = [t |-> "error"]],
                                   <<"connection lost">>))]
  /\ UNCHANGED <<env, store, now, gate, rt, proceso, archivos, descarga>>

\* s without its k-th element
RemoveAt(s, k) == SubSeq(s, 1, k - 1) \o SubSeq(s, k + 1, Len(s))

\* what follows an update that succeeded: the next await of the sequential
\* variant, or the promise resolves when nothing is outstanding
AfterUpdate(c, clock) ==
  IF c.queue # <<>>
    THEN [c EXCEPT !.queue = <<>>,
                   !.inflight = <<[ultimo_ingreso |-> Date(clock)]>>]
  ELSE IF c.inflight = <<>> THEN CallResolve(c)
  ELSE c

\* the store applies one of the updates the call has issued
ReconcileUpdate_Stale(i) ==
  /\ calls[i].pc = "update"
  /\ \E k \in 1..Len(calls[i].inflight) :
       LET c == calls[i]
           u == c.inflight[k]
           documento == c.datos.persona.documento
           c1 == [c EXCEPT !.inflight = RemoveAt(@, k),
                           !.applied = Append(@, [n |-> Writes + 1, u |-> u])]
       IN /\ store' = IF Writes = 0
                        THEN [store EXCEPT ![documento] = Updated(@, u)]
                        ELSE store
          /\ calls' = [calls EXCEPT ![i] = CallPc(AfterUpdate(c1, now))]
  /\ UNCHANGED <<env, now, gate, rt, proceso, archivos, descarga>>

ReconcileUpdate(i) ==
  /\ calls[i].pc = "update"
  /\ \E k \in 1..Len(calls[i].inflight) :
       LET c == calls[i]
           u == c.inflight[k]
           documento == c.datos.persona.documento
           c1 == [c EXCEPT !.inflight = RemoveAt(@, k),
                           !.applied = Append(@, [n |-> Writes + 1, u |-> u])]
       IN /\ store' = [store EXCEPT ![documento] = Updated(@, u)]
          /\ calls' = [calls EXCEPT ![i] = CallPc(AfterUpdate(c1, now))]
  /\ UNCHANGED <<env, now, gate, rt, proceso, archivos, descarga>>

\* the store fails one of the updates the call has issued: nothing is
\* written by it, the promise rejects and nothing further is awaited
ReconcileUpdateError(i) ==
  /\ calls[i].pc = "update"
  /\ \E k \in 1..Len(calls[i].inflight) :
       LET c == calls[i]
           c1 == [c EXCEPT !.inflight = RemoveAt(@, k), !.queue = <<>>,
                           !.failed = TRUE]
       IN calls' = [calls EXCEPT ![i] =
                      CallPc(CallReject(c1, <<"update failed">>))]
  /\ UNCHANGED <<env, store, now, gate, rt, proceso, archivos, descarga>>

(***************************************************************************)
(* src/obtenerClave.js                                                     *)
(*                                                                         *)
(* A path is the sequence of its segments; the file system holds the       *)
(* directories that exist and the content of the files at the paths a key  *)
(* may be saved to.                                                        *)
(***************************************************************************)
\* the values of the parameters urlOAuth, rutaDirectorio and nombreArchivo
ClaveUrls == {Undefined, Str(<<>>), Str(<<"u">>)}
ClaveDirs == {Undefined, Str(<<>>), Str(<<"a">>), Str(<<"a", "b">>)}
ClaveNames == {Undefined, Str(<<"f">>)}

\* res.data of the answer to axios.get(urlOAuth)
Clave0 == <<"k", "0">>
Clave1 == <<"k", "1">>
ClaveData == {Undefined, Str(<<>>), Str(Clave0), Str(Clave1)}

\* the answers of axios.get that reject
ClaveFailedReplies == {ReplyHttp(404), ReplyNone, ReplySetup}

\* path.join(rutaDirectorio, nombreArchivo)
PathJoin(dir, name) == dir \o name

KeyPaths ==
  {PathJoin(d.s, n.s) : d \in {x \in ClaveDirs : Truthy(x)},
                        n \in {x \in ClaveNames : Truthy(x)}}

\* the directory of a path and the directories above it
Prefixes(p, m) == {SubSeq(p, 1, j) : j \in 0..m}
Parent(p) == SubSeq(p, 1, Len(p) - 1)

\* a file system without key files
NoFiles == [dirs |-> {<<>>}, files |-> [p \in KeyPaths |-> Undefined]]

\* new Error(message)
Error(message) == [message |-> message]

\* what a function returns or throws, and the file system it leaves
Returned(fsys) == [threw |-> FALSE, fsys |-> fsys]
Threw(fsys, error) == [threw |-> TRUE, fsys |-> fsys, error |-> error]

\* formatearErrorAxios of obtenerClave.js
formatearErrorAxiosClave(error) ==
  IF error.kind = "httpError"
    THEN [status |-> error.status,
          message |-> <<"La solicitud a la URL de la clave falló con estado ",
                        ToString(error.status)>>]
  ELSE IF error.kind = "noResponse"
    THEN [status |-> 500,
          message |-> <<"No se recibió respuesta del servidor al solicitar la clave pública">>]
  ELSE [status |-> 500,
        message |-> <<"Error al configurar la solicitud: ", "Network Error">>]

\* fs.mkdirSync(ruta, {recursive: true}): m is the number of segments of
\* ruta whose directory exists afterwards; it throws when not all do
MkdirSync(fsys, ruta, m) ==
  LET fsys1 == [fsys EXCEPT !.dirs = @ \cup Prefixes(ruta, m)] IN
  IF m = Len(ruta)
    THEN Returned(fsys1)
    ELSE Threw(fsys1, Error(<<"EACCES">>))

\* fs.mkdirSync(ruta): creates the last segment only
MkdirSync_NotRecursive(fsys, ruta, m) ==
  IF Parent(ruta) \in fsys.dirs /\ m = Len(ruta)
    THEN Returned([fsys EXCEPT !.dirs = @ \cup {ruta}])
    ELSE Threw(fsys, Error(<<"ENOENT">>))

\* checkOrCreateDirectorio
checkOrCreateDirectorio(fsys, rutaDirectorio, m) ==
  IF rutaDirectorio \in fsys.dirs
    THEN Returned(fsys)
  ELSE LET r == MkdirSync(fsys, rutaDirectorio, m) IN
       IF r.threw
         THEN Threw(r.fsys,
                    Error(<<"No se pudo crear el directorio: ">> \o r.error.message))
         ELSE r

\* fs.writeFileSync(path, data, {encoding: 'utf8'}): w is the number of
\* characters of data the file holds afterwards, -1 when the file could
\* not be opened; the call throws when not all of data was written
WriteFileSync(fsys, path, data, w) ==
  IF Parent(path) \notin fsys.dirs
    THEN Threw(fsys, Error(<<"ENOENT">>))
  ELSE IF w = -1
    THEN Threw(fsys, Error(<<"EACCES">>))
  ELSE LET fsys1 ==
             [fsys EXCEPT !.files[path] = Str(SubSeq(data.s, 1, w))] IN
       IF w = Len(data.s)
         THEN Returned(fsys1)
         ELSE Threw(fsys1, Error(<<"ENOSPC">>))

\* no call of obtenerClavePublica was made
NoDescarga == [pc |-> "idle"]

NewDescarga(urlOAuth, rutaDirectorio, nombreArchivo) ==
  [pc |-> "get",
   urlOAuth |-> urlOAuth,
   rutaDirectorio |-> rutaDirectorio,
   nombreArchivo |-> nombreArchivo,
   promise |-> Pending,
   reply |-> [kind |-> "none"],
   archivos0 |-> archivos,
   nGet |-> 0,
   nWrite |-> 0]

ClaveSettle(c, p) == [c EXCEPT !.pc = "done", !.promise = p]

\* obtenerClavePublica up to the call of axios.get
obtenerClavePublica ==
  /\ proceso.estado = "serving"
  /\ descarga.pc \in {"idle", "done"}
  /\ \E urlOAuth \in ClaveUrls, rutaDirectorio \in ClaveDirs,
        nombreArchivo \in ClaveNames :
       LET c == NewDescarga(urlOAuth, rutaDirectorio, nombreArchivo) IN
       descarga' =
         IF ~Truthy(urlOAuth) \/ ~Truthy(rutaDirectorio)
              \/ ~Truthy(nombreArchivo)
           THEN ClaveSettle(c, Rejected(Error(
                  <<"Los parámetros urlOAuth, rutaDirectorio y nombreArchivo son obligatorios.">>)))
           ELSE [c EXCEPT !.nGet = @ + 1]
  /\ UNCHANGED <<env, store, now, gate, rt, proceso, calls, archivos>>

\* the .then handler of axios.get writing whatever res.data holds
ClaveThen_NoDataCheck(c, fsys, clavePublica, m, w) ==
  IF clavePublica = Undefined
    THEN [c |-> ClaveSettle(c, Rejected(Error(<<"ERR_INVALID_ARG_TYPE">>))),
          fsys |-> fsys]
  ELSE
  LET dir == checkOrCreateDirectorio(fsys, c.rutaDirectorio.s, m) IN
  IF dir.threw
    THEN [c |-> ClaveSettle(c, Rejected(dir.error)), fsys |-> dir.fsys]
  ELSE
  LET clavePath == PathJoin(c.rutaDirectorio.s, c.nombreArchivo.s)
      wr == WriteFileSync(dir.fsys, clavePath, clavePublica, w)
      c1 == [c EXCEPT !.nWrite = @ + 1]
  IN IF wr.threw
       THEN [c |-> ClaveSettle(c1, Rejected(wr.error)), fsys |-> wr.fsys]
       ELSE [c |-> ClaveSettle(c1, Resolved(Str(clavePath))),
             fsys |-> wr.fsys]

\* the .then handler of axios.get in obtenerClavePublica: the call and the
\* file system it leaves
ClaveThen(c, fsys, clavePublica, m, w) ==
  IF ~Truthy(clavePublica)
    THEN [c |-> ClaveSettle(c, Rejected(Error(
                  <<"La respuesta de la URL no contenía datos para la clave pública.">>))),
          fsys |-> fsys]
  ELSE
  LET dir == checkOrCreateDirectorio(fsys, c.rutaDirectorio.s, m) IN
  IF dir.threw
    THEN [c |-> ClaveSettle(c, Rejected(dir.error)), fsys |-> dir.fsys]
  ELSE
  LET clavePath == PathJoin(c.rutaDirectorio.s, c.nombreArchivo.s)
      wr == WriteFileSync(dir.fsys, clavePath, clavePublica, w)
      c1 == [c EXCEPT !.nWrite = @ + 1]
  IN IF wr.threw
       THEN [c |-> ClaveSettle(c1, Rejected(wr.error)), fsys |-> wr.fsys]
       ELSE [c |-> ClaveSettle(c1, Resolved(Str(clavePath))),
             fsys |-> wr.fsys]

\* axios.get answers with a 2xx response; the directory is created and the
\* file written in the same turn
ClaveGetReply ==
  /\ descarga.pc = "get"
  /\ \E clavePublica \in ClaveData,
        m \in 0..Len(descarga.rutaDirectorio.s),
        w \in -1..Len(Clave1) :
       /\ (Truthy(clavePublica) => w <= Len(clavePublica.s))
       /\ LET r == ClaveThen([descarga EXCEPT !.reply = Reply2xx(clavePublica)],
                             archivos, clavePublica, m, w)
          IN /\ descarga' = r.c
             /\ archivos' = r.fsys
  /\ UNCHANGED <<env, store, now, gate, rt, proceso, calls>>

\* axios.get fails: the .catch rejects with the formatted message
ClaveGetError ==
  /\ descarga.pc = "get"
  /\ \E reply \in ClaveFailedReplies :
       LET errorFormateado == formatearErrorAxiosClave(reply) IN
       descarga' = ClaveSettle([descarga EXCEPT !.reply = reply],
                               Rejected(Error(errorFormateado.message)))
  /\ UNCHANGED <<env, store, now, gate, rt, proceso, calls, archivos>>

(***************************************************************************)
(* Specification                                                           *)
(***************************************************************************)
\* the tables the store may hold when the process starts
Stores ==
  {st \in [StoreDocs -> UNION {Rows(d) : d \in StoreDocs} \cup {NoRow}] :
     \A d \in StoreDocs : st[d] = NoRow \/ st[d].documento = d}

\* the gate and the endpoints with both policies of the router unset
Init ==
  /\ TOKEN_ADMIN \in {Undefined, Str(<<>>), Str(ADM)}
  /\ CLAVE_PUBLICA = ProviderKey
  /\ OAUTH_VALIDADO = Undefined
  /\ OAUTH_REEMPLAZAR_NOMBRE = Undefined
  /\ store \in {st \in Stores :
                  \A d \in StoreDocs : st[d] = NoRow \/ st[d].nombre = NombreLocal}
  /\ now = 0
  /\ gate = GateIdle
  /\ rt = RtIdle
  /\ proceso = Serving
  /\ calls = NoCalls
  /\ archivos = NoFiles
  /\ descarga = NoDescarga

Next ==
  \/ validarUsuarioMW
  \/ validarUsuarioCall
  \/ VerifyDone
  \/ FindOneDone
  \/ FindOneError
  \/ PostToken
  \/ GetTokenReply
  \/ GetNuevoTokenRoute
  \/ GetDatosReply
  \/ ObtenerDatosUsuarioDone
  \/ ObtenerDatosUsuarioError
  \/ GetNuevoTokenReply
  \/ GetDatosRoute
  \/ ValidarUsuarioFindOneDone
  \/ ValidarUsuarioFindOneError
  \/ UpdateDone
  \/ UpdateError
  \/ Tick

Spec == Init /\ [][Next]_vars

\* the values a policy variable of process.env may have
FlagValues ==
  {Undefined, Str(<<"T", "R", "U", "E">>), Str(<<"t", "r", "u", "e">>),
   Str(<<"F", "A", "L", "S", "E">>)}

\* the endpoints of the router under every setting of its policies
InitRouter ==
  /\ TOKEN_ADMIN = Undefined
  /\ CLAVE_PUBLICA = ProviderKey
  /\ OAUTH_VALIDADO \in FlagValues
  /\ OAUTH_REEMPLAZAR_NOMBRE \in FlagValues
  /\ store \in Stores
  /\ now = 0
  /\ gate = GateIdle
  /\ rt = RtIdle
  /\ proceso = Serving
  /\ calls = NoCalls
  /\ archivos = NoFiles
  /\ descarga = NoDescarga

NextRouter ==
  \/ PostToken
  \/ GetTokenReply
  \/ GetNuevoTokenRoute
  \/ GetDatosRoute
  \/ GetDatosReply
  \/ ObtenerDatosUsuarioDone
  \/ ObtenerDatosUsuarioError
  \/ GetNuevoTokenReply
  \/ ValidarUsuarioFindOneDone
  \/ ValidarUsuarioFindOneError
  \/ UpdateDone
  \/ UpdateError
  \/ Tick

SpecRouter == InitRouter /\ [][NextRouter]_vars

\* module load followed by the gate and the endpoints
InitBoot ==
  /\ TOKEN_ADMIN \in {Undefined, Str(ADM)}
  /\ CLAVE_PUBLICA = KeyUnread
  /\ OAUTH_VALIDADO = Undefined
  /\ OAUTH_REEMPLAZAR_NOMBRE = Undefined
  /\ store \in {st \in Stores :
                  \A d \in StoreDocs : st[d] = NoRow \/ st[d].nombre = NombreLocal}
  /\ now = 0
  /\ gate = GateIdle
  /\ rt = RtIdle
  /\ proceso = Loading
  /\ calls = NoCalls
  /\ archivos = NoFiles
  /\ descarga = NoDescarga

NextBoot ==
  \/ LoadKey
  \/ LoadKeyError
  \/ validarUsuarioMW
  \/ validarUsuarioCall
  \/ VerifyDone
  \/ FindOneDone
  \/ FindOneError
  \/ PostToken
  \/ GetTokenReply
  \/ Tick

SpecBoot == InitBoot /\ [][NextBoot]_vars

\* the policy variables set to "TRUE" or left unset
CallFlags == {Undefined, Str(<<"T", "R", "U", "E">>)}

\* validarUsuario(datos) called directly by one or two callers
InitReconcile ==
  /\ TOKEN_ADMIN = Undefined
  /\ CLAVE_PUBLICA = ProviderKey
  /\ OAUTH_VALIDADO \in CallFlags
  /\ OAUTH_REEMPLAZAR_NOMBRE \in CallFlags
  /\ store \in {st \in Stores :
                  \A d \in StoreDocs :
                    st[d] = NoRow \/ st[d].tipo_usuario_id = 4}
  /\ now = 0
  /\ gate = GateIdle
  /\ rt = RtIdle
  /\ proceso = Serving
  /\ calls = NoCalls
  /\ archivos = NoFiles
  /\ descarga = NoDescarga

NextReconcile ==
  \/ \E i \in CallIds : ReconcileCall(i)
  \/ \E i \in CallIds : ReconcileFindOne(i)
  \/ \E i \in CallIds : ReconcileFindOneError(i)
  \/ \E i \in CallIds : ReconcileUpdate(i)
  \/ \E i \in CallIds : ReconcileUpdateError(i)
  \/ Tick

SpecReconcile == InitReconcile /\ [][NextReconcile]_vars

\* two callers of the current validarUsuario(datos) for an active account
InitConcurrent ==
  /\ TOKEN_ADMIN = Undefined
  /\ CLAVE_PUBLICA = ProviderKey
  /\ OAUTH_VALIDADO = Undefined
  /\ OAUTH_REEMPLAZAR_NOMBRE \in CallFlags
  /\ store \in {st \in Stores :
                  \A d \in StoreDocs :
                    /\ st[d] # NoRow
                    /\ st[d].tipo_usuario_id = 4 /\ st[d].activo}
  /\ now = 0
  /\ gate = GateIdle
  /\ rt = RtIdle
  /\ proceso = Serving
  /\ calls = NoCalls
  /\ archivos = NoFiles
  /\ descarga = NoDescarga

NextConcurrent ==
  \/ \E i \in CallIds : ReconcileCallCombined(i)
  \/ \E i \in CallIds : ReconcileFindOne(i)
  \/ \E i \in CallIds : ReconcileFindOneError(i)
  \/ \E i \in CallIds : ReconcileUpdate(i)
  \/ \E i \in CallIds : ReconcileUpdateError(i)
  \/ Tick

\* the store answers every read and every update it was sent
SpecConcurrent ==
  /\ InitConcurrent /\ [][NextConcurrent]_vars
  /\ \A i \in CallIds :
       WF_vars(ReconcileFindOne(i) \/ ReconcileFindOneError(i)
                 \/ ReconcileUpdate(i) \/ ReconcileUpdateError(i))

\* the file systems the process may find: a key file is in a directory
\* that exists
ClaveFileSystems ==
  {fsys \in [dirs : {Prefixes(<<"a", "b">>, m) : m \in 0..2},
             files : [KeyPaths -> {Undefined, Str(Clave0)}]] :
     \A p \in KeyPaths :
       fsys.files[p] # Undefined => Parent(p) \in fsys.dirs}

\* the bootstrap: obtenerClavePublica called in a running process
InitClave ==
  /\ TOKEN_ADMIN = Undefined
  /\ CLAVE_PUBLICA = ProviderKey
  /\ OAUTH_VALIDADO = Undefined
  /\ OAUTH_REEMPLAZAR_NOMBRE = Undefined
  /\ store = [d \in StoreDocs |-> NoRow]
  /\ now = 0
  /\ gate = GateIdle
  /\ rt = RtIdle
  /\ proceso = Serving
  /\ calls = NoCalls
  /\ archivos \in ClaveFileSystems
  /\ descarga = NoDescarga

NextClave ==
  \/ obtenerClavePublica
  \/ ClaveGetReply
  \/ ClaveGetError

SpecClave == InitClave /\ [][NextClave]_vars

\* the requests of the gate when the verifier and the store answer every
\* call they were sent
InitGate ==
  /\ TOKEN_ADMIN \in {Undefined, Str(ADM)}
  /\ CLAVE_PUBLICA = ProviderKey
  /\ OAUTH_VALIDADO = Undefined
  /\ OAUTH_REEMPLAZAR_NOMBRE = Undefined
  /\ store \in {st \in Stores :
                  \A d \in StoreDocs :
                    st[d] = NoRow
                      \/ (st[d].nombre = NombreLocal /\ st[d].tipo_usuario_id = 4)}
  /\ now = 0
  /\ gate = GateIdle
  /\ rt = RtIdle
  /\ proceso = Serving
  /\ calls = NoCalls
  /\ archivos = NoFiles
  /\ descarga = NoDescarga

NextGate ==
  \/ validarUsuarioMW
  \/ VerifyDone
  \/ FindOneDone
  \/ FindOneError
  \/ Tick

SpecGate ==
  /\ InitGate /\ [][NextGate]_vars
  /\ WF_vars(VerifyDone)
  /\ WF_vars(FindOneDone \/ FindOneError)

\* validarUsuario called directly, in its current and its earlier variant
InitVariants ==
  /\ TOKEN_ADMIN \in {Undefined, Str(<<>>), Str(ADM)}
  /\ CLAVE_PUBLICA = ProviderKey
  /\ OAUTH_VALIDADO = Undefined
  /\ OAUTH_REEMPLAZAR_NOMBRE = Undefined
  /\ store \in {st \in Stores :
                  \A d \in StoreDocs :
                    st[d] = NoRow
                      \/ (st[d].nombre = NombreLocal /\ st[d].tipo_usuario_id = 4)}
  /\ now = 0
  /\ gate = GateIdle
  /\ rt = RtIdle
  /\ proceso = Serving
  /\ calls = NoCalls
  /\ archivos = NoFiles
  /\ descarga = NoDescarga

NextVariants ==
  \/ validarUsuarioCall
  \/ validarUsuarioEarlierCall
  \/ VerifyDone
  \/ FindOneDone
  \/ FindOneError
  \/ Tick

SpecVariants == InitVariants /\ [][NextVariants]_vars

\* GET /datos while the application deactivates accounts
InitDeactivate ==
  /\ TOKEN_ADMIN = Undefined
  /\ CLAVE_PUBLICA = ProviderKey
  /\ OAUTH_VALIDADO = Undefined
  /\ OAUTH_REEMPLAZAR_NOMBRE \in CallFlags
  /\ store \in Stores
  /\ now = 0
  /\ gate = GateIdle
  /\ rt = RtIdle
  /\ proceso = Serving
  /\ calls = NoCalls
  /\ archivos = NoFiles
  /\ descarga = NoDescarga

NextDeactivate ==
  \/ GetDatosRoute
  \/ GetDatosReply
  \/ ValidarUsuarioFindOneDone
  \/ ValidarUsuarioFindOneError
  \/ UpdateDone
  \/ UpdateError
  \/ Deactivate
  \/ Tick

SpecDeactivate == InitDeactivate /\ [][NextDeactivate]_vars

(***************************************************************************)
(* Properties                                                              *)
(***************************************************************************)
GateDone == gate.pc = "done"
GateResolved == GateDone /\ gate.promise.state = "resolved"
\* the middleware answered once, with this status, and did not call next
AnsweredOnly(status) ==
  /\ gate.nextCalls = 0
  /\ Len(gate.responses) = 1
  /\ gate.responses[1].status = status
  /\ gate.responses[1].body.status = "error"
\* the middleware called next once and sent no response
PassedOn == gate.nextCalls = 1 /\ gate.responses = <<>>

\* the token the provider accepted in POST /token verifies and names a
\* documento of the store
TokenAccepted ==
  /\ rt.pc = "done" /\ rt.route = "token"
  /\ Truthy(rt.codigo)
  /\ rt.reply.kind = "response" /\ rt.reply.data.status = "ok"
  /\ JwtVerify(rt.reply.data.token, CLAVE_PUBLICA, now).ok
  /\ JwtVerify(rt.reply.data.token, CLAVE_PUBLICA, now).documento \in DOMAIN store
  /\ store[JwtVerify(rt.reply.data.token, CLAVE_PUBLICA, now).documento] # NoRow

\* C1: POST /token with a non-empty codigo that the provider accepts with
\* a correctly signed, unexpired token T whose documento is in the store
\* answers 200 {status: "ok", token: T}.
C1_TokenExchangeOk ==
  TokenAccepted =>
    rt.responses = <<[status |-> 200,
                      body |-> [status |-> "ok",
                                token |-> rt.reply.data.token]]>>

\* C2: without a credential (null, undefined, "") validarUsuario rejects
\* with 401 when requerido and resolves "SIN TOKEN" with user null
\* otherwise; neither the verifier nor the store is invoked.
C2_NoCredential ==
  (gate.pc # "idle" /\ ~Truthy(gate.token)) =>
    /\ gate.pc = "done"
    /\ gate.requerido =>
         (gate.promise.state = "rejected" /\ gate.promise.value.status = 401)
    /\ ~gate.requerido =>
         gate.promise = Resolved([status |-> "SIN TOKEN", user |-> Null])
    /\ gate.nVerify = 0
    /\ gate.nFindOne = 0

C2_Witness ==
  /\ GateResolved
  /\ gate.token = Str(<<>>)
  /\ gate.promise.value.status = "SIN TOKEN"

\* C3: validarUsuario resolves SUPERADMIN exactly when the credential is
\* equal to the configured bypass secret; a prefix or an extension of the
\* secret and a valid token never do.
C3_SuperadminIffSecret ==
  gate.pc # "idle" =>
    ((gate.promise.state = "resolved"
        /\ gate.promise.value.status = "SUPERADMIN")
      <=> (Truthy(TOKEN_ADMIN) /\ gate.token = TOKEN_ADMIN))

C3_Witness ==
  /\ GateResolved
  /\ gate.promise.value.status = "SUPERADMIN"
  /\ gate.header = Str(BEARER \o ADM)

\* C4: with the bypass secret validarUsuario returns the built-in admin
\* identity and neither verifies a signature nor reads the store.
C4_BypassSkipsVerifierAndStore ==
  (gate.pc # "idle" /\ Truthy(gate.token) /\ gate.token = TOKEN_ADMIN) =>
    /\ gate.promise = Resolved([status |-> "SUPERADMIN", user |-> admin])
    /\ gate.nVerify = 0
    /\ gate.nFindOne = 0

C4_Witness ==
  /\ GateDone
  /\ Truthy(gate.token) /\ gate.token = TOKEN_ADMIN
  /\ gate.promise.value.user = admin

\* the store was read for a verified token and had no active account
NoActiveAccount ==
  /\ GateDone
  /\ gate.decoded.ok
  /\ gate.nFindOne = 1
  /\ \/ gate.usuario = NoRow
     \/ gate.usuario.t = "row" /\ ~gate.usuario.activo

\* C5: when the token verifies and the account of its documento is
\* missing or inactive, the gate rejects with 403 and next is not called.
C5_InactiveOrMissingForbidden ==
  NoActiveAccount =>
    /\ gate.promise.state = "rejected"
    /\ gate.promise.value.status = 403
    /\ gate.via = "mw" => AnsweredOnly(403)

C5_Witness ==
  /\ NoActiveAccount
  /\ gate.via = "mw"
  /\ gate.usuario # NoRow
  /\ AnsweredOnly(403)

\* the verifier was called and failed
VerifierFailed == GateDone /\ gate.nVerify = 1 /\ ~gate.decoded.ok

\* C6: every failure of the verifier (malformed, bad signature, wrong
\* algorithm, expired) gives status 403, and the store is not read.
C6_VerifierFailureIs403 ==
  VerifierFailed =>
    /\ gate.promise.state = "rejected"
    /\ gate.promise.value.status = 403
    /\ gate.nFindOne = 0
    /\ gate.via = "mw" => AnsweredOnly(403)

C6_Witness ==
  /\ VerifierFailed
  /\ gate.via = "mw"
  /\ gate.promise.value.msj[1] = "Token expirado: "
  /\ AnsweredOnly(403)

\* the role of the resolved identity is in the allow-list
RoleAllowed ==
  /\ gate.promise.value.user # Null
  /\ Includes(gate.tipos.a, gate.promise.value.user.tipo_usuario_id)

DecisionUsuario == GateResolved /\ gate.promise.value.status = "USUARIO"
\* the role claim carried in the text of the token
TokenRole == DigitVal(PayloadOf(gate.token.s)[2])
\* the role stored on the account of the token's documento
StoredRole == store[gate.decoded.documento].tipo_usuario_id

\* C8 as stated: the role of an authenticated identity, and the role the
\* allow-list is tested against, is the role stored on the local account.
C8_StoredRoleJudged ==
  DecisionUsuario =>
    /\ gate.promise.value.user.tipo_usuario_id = StoredRole
    /\ (gate.via = "mw" /\ gate.tipos # Null) =>
         (PassedOn <=> Includes(gate.tipos.a, StoredRole))

\* C8 amended: the role of an authenticated identity, and the role the
\* allow-list is tested against, is the role claim of the verified token;
\* the role stored on the local account is not read.
C8_TokenRoleJudged ==
  DecisionUsuario =>
    /\ gate.promise.value.user.tipo_usuario_id = TokenRole
    /\ (gate.via = "mw" /\ gate.tipos # Null) =>
         (PassedOn <=> Includes(gate.tipos.a, TokenRole))

C8_Witness ==
  /\ DecisionUsuario /\ gate.via = "mw"
  /\ TokenRole = 4 /\ StoredRole = 1
  /\ gate.tipos = Arr(<<3, 4>>)
  /\ PassedOn

\* C9: a request whose credential is the bypass secret passes the
\* middleware for every allow-list, also one without role 1.
C9_BypassPassesEveryAllowList ==
  (GateDone /\ gate.via = "mw"
     /\ Truthy(gate.token) /\ gate.token = TOKEN_ADMIN) => PassedOn

\* C10: with requerido = false a request without credential is never
\* answered with an error: next is called with req.user = null for every
\* allow-list.
C10_OptionalAnonymousPasses ==
  (GateDone /\ gate.via = "mw" /\ ~gate.requerido /\ ~Truthy(gate.token)) =>
    /\ PassedOn
    /\ gate.reqUser = [set |-> TRUE, user |-> Null]

(***************************************************************************)
(* Properties of the endpoints of the router                               *)
(***************************************************************************)

\* the endpoint has answered
RtDone(route) == rt.pc = "done" /\ rt.route = route

\* the endpoint answered once, with this status
RtStatus(status) ==
  Len(rt.responses) = 1 /\ rt.responses[1].status = status

\* the endpoint answered once, with {status: "error", error: msg}
RtFailedWith(msg) ==
  /\ Len(rt.responses) = 1
  /\ rt.responses[1].body = [status |-> "error", error |-> msg]

\* the request has sent nothing to the provider and has neither read nor
\* written the store
NoProviderNoStore ==
  /\ rt.nPost = 0 /\ rt.nGet = 0
  /\ rt.nFindOne = 0 /\ rt.nUpdate = 0
  /\ store = rt.store0

\* the provider answered 2xx with a body whose status is not "ok"
ProviderSaidNotOk ==
  rt.reply.kind = "response" /\ rt.reply.data.status # "ok"

\* C11: POST /token answers 403 when the provider reports a status other
\* than "ok" for the codigo, so that a rejected or expired codigo differs
\* from the 5xx of an unreachable or failing provider.
C11_RejectedCodigoIs403 ==
  (RtDone("token") /\ rt.nPost = 1 /\ ProviderSaidNotOk) => RtStatus(403)

\* C11 amended: POST /token relays the HTTP status with which the provider
\* rejects the codigo (403 for an expired or used codigo); a status other
\* than "ok" in the body of a 2xx answer of the provider is answered 500
\* with the provider's message, like an upstream failure.
C11_RejectedCodigoRelayed ==
  (RtDone("token") /\ rt.nPost = 1) =>
    /\ rt.reply.kind = "httpError" =>
          /\ RtStatus(rt.reply.status)
          /\ rt.responses[1].body.status = "error"
    /\ ProviderSaidNotOk =>
          /\ RtStatus(500)
          /\ rt.responses[1].body.status = "error"
          /\ rt.reply.data.error # <<>> =>
                rt.responses[1].body.error = rt.reply.data.error

C11_Witness ==
  /\ RtDone("token") /\ rt.nPost = 1
  /\ rt.reply = ReplyHttp(403)
  /\ RtStatus(403)

\* C12: POST /token with a missing or empty codigo answers 400 with
\* status "error"; nothing is sent to the provider and the store is
\* neither read nor written.
C12_MissingCodigo400 ==
  (rt.pc # "idle" /\ rt.route = "token" /\ ~Truthy(rt.codigo)) =>
    /\ rt.pc = "done"
    /\ RtStatus(400)
    /\ rt.responses[1].body.status = "error"
    /\ rt.nVerify = 0
    /\ NoProviderNoStore

C12_Witness ==
  /\ RtDone("token") /\ rt.codigo = Str(<<>>)
  /\ RtStatus(400)
  /\ store["1"] # NoRow

\* C13: GET /nuevo-token and GET /datos/:permiso_id without Authorization
\* header answer 401 with status "error"; nothing is sent to the provider
\* and the store is neither read nor written.
C13_MissingBearer401 ==
  (rt.pc # "idle" /\ rt.route \in {"nuevo-token", "datos"}
     /\ ~Truthy(rt.token)) =>
    /\ rt.pc = "done"
    /\ RtStatus(401)
    /\ rt.responses[1].body.status = "error"
    /\ NoProviderNoStore

C13_Witness ==
  /\ RtDone("datos") /\ rt.token = Undefined
  /\ RtStatus(401)
  /\ store["1"] # NoRow

\* the variable of process.env is "TRUE" in upper or lower case
Enabled(flag) ==
  flag \in {Str(<<"T", "R", "U", "E">>), Str(<<"t", "r", "u", "e">>)}
RequireVerified == Enabled(OAUTH_VALIDADO)
SyncDisplayName == Enabled(OAUTH_REEMPLAZAR_NOMBRE)

\* GET /datos has received the profile and reconciles it
Reconcile ==
  rt.pc # "idle" /\ rt.route = "datos" /\ rt.datos # [t |-> "none"]

\* the account of the profile when the request started
ProfileAccount ==
  IF rt.datos.persona.documento \in DOMAIN rt.store0
    THEN rt.store0[rt.datos.persona.documento] ELSE NoRow

\* the policy rejects the profile
NotVerified == RequireVerified /\ ~rt.datos.persona.validado

\* the store answered the read of the reconciliation, if there was one
LookupAnswered == rt.usuario # [t |-> "error"]

\* C14: GET /datos/:permiso_id answers 403 when reconciliation fails
\* (account not found, inactive, or profile not verified under the
\* require-verified policy) and 5xx, never 403, when the provider's
\* request failed.
C14_DatosFailureStatus ==
  RtDone("datos") /\ rt.nGet = 1 =>
    /\ (Reconcile /\ LookupAnswered
          /\ (NotVerified \/ ProfileAccount = NoRow
                \/ ~ProfileAccount.activo)) => RtStatus(403)
    /\ ~Reconcile =>
         Len(rt.responses) = 1 /\ rt.responses[1].status \in 500..599

\* the identity of the request has no local account: the profile that
\* GET /nuevo-token looked up, or the documento of the valid token that
\* POST /token obtained
NoLocalAccount ==
  \/ RtDone("nuevo-token") /\ rt.usuario = NoRow
  \/ /\ RtDone("token")
     /\ rt.reply.kind = "response" /\ rt.reply.data.status = "ok"
     /\ JwtVerify(rt.reply.data.token, CLAVE_PUBLICA, now).ok
     /\ JwtVerify(rt.reply.data.token, CLAVE_PUBLICA, now).documento
          \notin DOMAIN store

\* C15: an identity without local account is answered with 403 on GET
\* /nuevo-token and on POST /token, not with a 5xx status.
C15_NoLocalAccountIs403 ==
  NoLocalAccount => RtStatus(403)

\* C15 amended: an identity without local account is answered with 500 on
\* GET /nuevo-token ("Usuario local no encontrado") and on POST /token;
\* only the gate and GET /datos answer it with 403.
C15_NoLocalAccountIs500 ==
  NoLocalAccount =>
    /\ RtStatus(500)
    /\ rt.responses[1].body.status = "error"
    /\ rt.route = "nuevo-token" =>
         RtFailedWith(<<"Usuario local no encontrado">>)

C15_Witness ==
  /\ RtDone("nuevo-token") /\ rt.usuario = NoRow
  /\ rt.nFindOne = 1 /\ rt.nPost = 0
  /\ RtStatus(500)

\* C16: when a request to the provider was sent and no response was
\* received, the endpoint answers a 5xx status with status "error".
C16_NoResponseIs5xx ==
  (rt.pc = "done" /\ rt.reply.kind = "noResponse") =>
    /\ Len(rt.responses) = 1
    /\ rt.responses[1].status \in 500..599
    /\ rt.responses[1].body.status = "error"

C16_Witness ==
  /\ RtDone("datos") /\ rt.reply.kind = "noResponse"
  /\ RtStatus(502)

\* C17: with the require-verified policy enabled a profile whose validado
\* is false fails with "Usuario no validado" before the store is looked
\* up, whatever the account: the store is neither read nor written.
C17_NotVerifiedBeforeLookup ==
  (Reconcile /\ NotVerified) =>
    /\ rt.pc = "done"
    /\ RtFailedWith(<<"Usuario no validado">>)
    /\ rt.nFindOne = 0 /\ rt.nUpdate = 0
    /\ store = rt.store0

C17_Witness ==
  /\ Reconcile /\ NotVerified
  /\ ProfileAccount # NoRow /\ ProfileAccount.activo
  /\ RtFailedWith(<<"Usuario no validado">>)

\* C18: reconciling a profile whose documento has no account always fails
\* with "Usuario no encontrado" and leaves the store unchanged.
C18_AbsentAlwaysNotFound ==
  (Reconcile /\ rt.pc = "done" /\ LookupAnswered
     /\ ProfileAccount = NoRow) =>
    /\ RtFailedWith(<<"Usuario no encontrado">>)
    /\ store = rt.store0

\* C18 amended: reconciling a profile whose documento has no account
\* always fails and leaves the store unchanged; the failure is "Usuario
\* no validado" when the require-verified policy rejects the profile and
\* "Usuario no encontrado" otherwise.
C18_AbsentNeverReconciled ==
  (Reconcile /\ rt.pc = "done" /\ LookupAnswered
     /\ ProfileAccount = NoRow) =>
    /\ RtFailedWith(IF NotVerified THEN <<"Usuario no validado">>
                                   ELSE <<"Usuario no encontrado">>)
    /\ rt.nUpdate = 0
    /\ store = rt.store0

C18_Witness ==
  /\ Reconcile /\ rt.pc = "done"
  /\ ProfileAccount = NoRow /\ rt.usuario = NoRow
  /\ store["1"] # NoRow
  /\ RtFailedWith(<<"Usuario no encontrado">>)

\* C19: reconciling a profile whose account has activo = false fails with
\* "Usuario inactivo" and no update of nombre or ultimo_ingreso is
\* attempted.
C19_InactiveAlwaysInactive ==
  (Reconcile /\ rt.pc = "done" /\ LookupAnswered
     /\ ProfileAccount # NoRow /\ ~ProfileAccount.activo) =>
    /\ RtFailedWith(<<"Usuario inactivo">>)
    /\ rt.nUpdate = 0
    /\ store = rt.store0

\* C19 amended: reconciling a profile whose account has activo = false
\* fails and no update of nombre or ultimo_ingreso is attempted; the
\* failure is "Usuario no validado" when the require-verified policy
\* rejects the profile and "Usuario inactivo" otherwise.
C19_InactiveNeverUpdated ==
  (Reconcile /\ LookupAnswered
     /\ ProfileAccount # NoRow /\ ~ProfileAccount.activo) =>
    /\ rt.nUpdate = 0
    /\ store = rt.store0
    /\ rt.pc = "done" =>
         RtFailedWith(IF NotVerified THEN <<"Usuario no validado">>
                                     ELSE <<"Usuario inactivo">>)

C19_Witness ==
  /\ Reconcile /\ rt.pc = "done"
  /\ rt.nFindOne = 1
  /\ ProfileAccount # NoRow /\ ~ProfileAccount.activo
  /\ RtFailedWith(<<"Usuario inactivo">>)

\* the reconciliation succeeded
Reconciled == Reconcile /\ rt.pc = "done" /\ RtStatus(200)

\* C20: on a successful reconcile nombre is written if and only if the
\* sync-display-name policy is enabled and the stored nombre differs from
\* the upper-cased "<apellidos>, <nombre>"; the value written is that
\* name; with the policy disabled nombre is not changed.
C20_NombreSync ==
  Reconciled =>
    LET old == rt.store0[rt.datos.persona.documento]
        new == store[rt.datos.persona.documento]
        written == "nombre" \in DOMAIN rt.updates
    IN /\ written <=> (SyncDisplayName /\ old.nombre # NombreOAuth)
       /\ written => new.nombre = NombreOAuth
       /\ ~written => new.nombre = old.nombre
       /\ ~SyncDisplayName => new.nombre = old.nombre

C20_Witness ==
  /\ Reconciled
  /\ OAUTH_REEMPLAZAR_NOMBRE = Str(<<"t", "r", "u", "e">>)
  /\ rt.store0[rt.datos.persona.documento].nombre = NombreLocal
  /\ store[rt.datos.persona.documento].nombre = NombreOAuth

\* C21: every reconcile that succeeds has written ultimo_ingreso with the
\* time of the request, whatever the two policies and whether or not
\* nombre changed; it does not succeed without that write.
C21_StampedOnSuccess ==
  Reconciled =>
    LET new == store[rt.datos.persona.documento] IN
    /\ rt.nUpdate = 1
    /\ "ultimo_ingreso" \in DOMAIN rt.updates
    /\ new.ultimo_ingreso # Null
    /\ new.ultimo_ingreso.at \in rt.t0..now

C21_Witness ==
  /\ Reconciled
  /\ ~SyncDisplayName /\ ~RequireVerified
  /\ rt.store0[rt.datos.persona.documento].ultimo_ingreso = Date(0)
  /\ store[rt.datos.persona.documento].ultimo_ingreso = Date(1)
  /\ store[rt.datos.persona.documento].nombre
       = rt.store0[rt.datos.persona.documento].nombre

(***************************************************************************)
(* Properties of validarUsuario(datos) called directly                     *)
(***************************************************************************)

\* the updates of ultimo_ingreso and of nombre the store applied for a call
StampWrites(c) ==
  {k \in 1..Len(c.applied) : "ultimo_ingreso" \in DOMAIN c.applied[k].u}
NombreWrites(c) ==
  {k \in 1..Len(c.applied) : "nombre" \in DOMAIN c.applied[k].u}

\* the call is over and the store failed none of its requests
CallClean(c) ==
  c.pc = "done" /\ ~c.failed /\ c.usuario # [t |-> "error"]

\* the upper-cased "<apellidos>, <nombre>" of the profiles of the calls
Canonical(datos) ==
  IF datos.persona.nombre = Nombre THEN NombreOAuth ELSE NombreOAuth2

\* the policy rejects the profile of a call
CallNotVerified(c) == RequireVerified /\ ~c.datos.persona.validado

\* call j was made after call i was over, with the same profile, for an
\* active account, with the sync policy enabled
TwiceInSuccession(i, j) ==
  /\ i # j
  /\ CallClean(calls[i]) /\ CallClean(calls[j])
  /\ calls[j].after
  /\ calls[i].datos = calls[j].datos
  /\ calls[i].row0 # NoRow /\ calls[i].row0.activo
  /\ ~CallNotVerified(calls[i])
  /\ SyncDisplayName

\* C22: two calls of reconcile in succession with the same profile on an
\* active account, sync policy enabled: both write ultimo_ingreso, the
\* second writes no nombre and the name after it is the name after the
\* first.
C22_Idempotent ==
  \A i, j \in CallIds :
    TwiceInSuccession(i, j) =>
      LET first == calls[i]
          second == calls[j]
          row == store[second.datos.persona.documento]
      IN /\ first.outcome = "resolved" /\ second.outcome = "resolved"
         /\ StampWrites(first) # {} /\ StampWrites(second) # {}
         /\ row.ultimo_ingreso # Null
         /\ row.ultimo_ingreso.at \in second.t0..now
         /\ NombreWrites(second) = {}
         /\ second.row0.nombre = Canonical(first.datos)
         /\ row.nombre = second.row0.nombre

C22_Witness ==
  /\ TwiceInSuccession(1, 2)
  /\ calls[1].variant = "combined" /\ calls[2].variant = "combined"
  /\ calls[1].row0.nombre = NombreLocal
  /\ NombreWrites(calls[1]) # {} /\ NombreWrites(calls[2]) = {}
  /\ calls[2].row0.ultimo_ingreso = Date(0)
  /\ store["1"].ultimo_ingreso = Date(1)
  /\ store["1"].nombre = NombreOAuth

\* C23: the store is written only by reconcile, reached through GET
\* /datos/:permiso_id: no step of the gate, of obtenerDatosUsuario, of
\* POST /token or of GET /nuevo-token changes any row.
C23_OnlyReconcileWrites ==
  [][store' # store =>
       (rt.pc = "update" /\ rt.route = "datos" /\ gate.pc \in {"idle", "done"})]_vars

C23_Witness ==
  /\ RtDone("nuevo-token") /\ RtStatus(200)
  /\ rt.nFindOne = 1
  /\ store["1"] # NoRow
  /\ store = rt.store0

(***************************************************************************)
(* Properties of the requests to the provider, of the key and of the       *)
(* responses                                                               *)
(***************************************************************************)

\* the provider's last answer was a failure
ReplyFailed ==
  /\ rt.reply.kind # "none"
  /\ ~(rt.reply.kind = "response" /\ rt.reply.data.status = "ok")

\* C24: no retry: an inbound request makes each of getToken, getDatos and
\* getNuevoToken send at most one request to the provider, and a failed
\* request is answered to the client with no further request.
C24_NoRetry ==
  rt.pc # "idle" =>
    /\ rt.nPost <= 1 /\ rt.nGet <= 1
    /\ rt.route = "token" => rt.nGet = 0
    /\ rt.route = "datos" => rt.nPost = 0
    /\ rt.route = "nuevo-token" /\ rt.nPost = 1 => rt.nGet = 1
    /\ ReplyFailed =>
         /\ rt.pc = "done"
         /\ Len(rt.responses) = 1
         /\ rt.responses[1].body.status = "error"
         /\ rt.nFindOne = (IF rt.nPost + rt.nGet = 2 THEN 1 ELSE 0)

C24_Witness ==
  /\ RtDone("nuevo-token")
  /\ rt.nGet = 1 /\ rt.nPost = 1
  /\ rt.reply = ReplyNone
  /\ RtStatus(502)

\* the token has the key's signature over its header and payload
SignedWith(token, key) ==
  /\ Truthy(token)
  /\ Cardinality(Dots(token.s)) = 2
  /\ SignatureOf(token.s) = <<key>> \o HeaderOf(token.s) \o PayloadOf(token.s)

\* the gate has the answer of jwt.verify for its token
Verified == gate.pc \in {"findOne", "done"} /\ gate.nVerify = 1

C25_KeyState ==
  /\ proceso.lecturas <= 1
  /\ proceso.estado = "loading" =>
       /\ proceso.lecturas = 0 /\ CLAVE_PUBLICA = KeyUnread
       /\ gate = GateIdle /\ rt = RtIdle
  /\ proceso.estado = "exited" =>
       /\ proceso.lecturas = 1
       /\ gate = GateIdle /\ rt = RtIdle
  /\ proceso.estado = "serving" =>
       /\ proceso.lecturas = 1 /\ CLAVE_PUBLICA \in KeyFiles
  /\ Verified =>
       /\ gate.decoded.ok => SignedWith(gate.token, CLAVE_PUBLICA)
       /\ gate.promise = Rejected(crearError(403,
                           <<"Error en token: ", "invalid signature">>))
            => ~SignedWith(gate.token, CLAVE_PUBLICA)

\* C25: the key is read once, at module load, before any token is
\* verified; a failed read ends the process and no request is served; once
\* loaded the key never changes and every verification uses it.
C25_KeyLoadedOnce ==
  /\ []C25_KeyState
  /\ [][proceso.estado # "loading" =>
          (CLAVE_PUBLICA' = CLAVE_PUBLICA /\ proceso' = proceso)]_vars

C25_Witness ==
  /\ proceso = Serving /\ CLAVE_PUBLICA = "x"
  /\ Verified /\ gate.pc = "done"
  /\ gate.token = Str(TokBadSig)
  /\ gate.decoded.ok

\* the account GET /nuevo-token looked up is inactive
RefreshForInactive ==
  /\ RtDone("nuevo-token") /\ rt.nFindOne = 1 /\ LookupAnswered
  /\ rt.documento \in DOMAIN store
  /\ store[rt.documento] # NoRow
  /\ ~store[rt.documento].activo

\* C28: the router authorizes no request for an inactive account: GET
\* /nuevo-token never answers 200 with a new token when the account of the
\* profile's documento has activo = false.
C28_InactiveNeverRefreshed ==
  RefreshForInactive => ~RtStatus(200)

\* C28 amended: GET /datos never answers 200 for an inactive account, but
\* GET /nuevo-token does not look at activo: for an inactive account it
\* answers 200 with the new token whenever the provider issues one.
C28_InactiveRefreshedNotReconciled ==
  /\ RefreshForInactive =>
       /\ rt.nPost = 1
       /\ ~ReplyFailed =>
            /\ RtStatus(200)
            /\ rt.responses[1].body =
                 [nuevoToken |-> rt.reply.data.token, status |-> "ok"]
  /\ (RtDone("datos") /\ Reconcile /\ ProfileAccount # NoRow
        /\ ~ProfileAccount.activo) => ~RtStatus(200)

C28_Witness ==
  /\ RefreshForInactive
  /\ RtStatus(200)
  /\ rt.responses[1].body.status = "ok"

\* the middleware tested the role of the identity against the allow-list
RoleTested ==
  /\ GateResolved /\ gate.via = "mw"
  /\ gate.tipos # Null

\* the token of the gate's request verifies at some time up to now
VerifiesByNow ==
  \E t \in 0..now : JwtVerify(gate.token, CLAVE_PUBLICA, t).ok

\* the store answered the gate's read with an active account
FoundActive ==
  /\ gate.nFindOne = 1
  /\ gate.usuario = [t |-> "row", activo |-> TRUE]

Enveloped(response) ==
  /\ "status" \in DOMAIN response.body
  /\ response.body.status \in {"ok", "error"}
  /\ response.body.status = "ok" <=> response.status \in 200..299
  /\ response.body.status = "error" =>
       /\ "error" \in DOMAIN response.body
       /\ response.body.error # <<>>
       /\ \A k \in 1..Len(response.body.error) :
            response.body.error[k] \in STRING

\* C30: every response of the three endpoints and of the middleware has
\* status "ok" exactly when it is a 2xx response and status "error"
\* otherwise, and every failure carries a message in error.
C30_UniformEnvelope ==
  /\ gate.pc # "idle" =>
       \A k \in 1..Len(gate.responses) : Enveloped(gate.responses[k])
  /\ rt.pc # "idle" =>
       \A k \in 1..Len(rt.responses) : Enveloped(rt.responses[k])

C30_Witness ==
  /\ RtDone("datos") /\ rt.reply = ReplyHttp(403)
  /\ RtStatus(403)
  /\ Enveloped(rt.responses[1])

\* one call was made, it is over, and no other call was made
SingleCall == calls[1].pc = "done" /\ calls[2].pc = "idle"

\* the outcomes of the variant with one combined update for a call: it
\* rejects with the row as it was, or resolves with nombre synchronised
\* under the policy and ultimo_ingreso set to a time of the call
CombinedOutcome(c, row) ==
  IF \/ CallNotVerified(c) \/ c.usuario = [t |-> "error"]
     \/ c.row0 = NoRow
    THEN c.outcome = "rejected" /\ row = c.row0
  ELSE IF ~c.row0.activo
    THEN c.outcome = "rejected" /\ row = c.row0
  ELSE \/ c.outcome = "rejected" /\ row = c.row0
       \/ /\ c.outcome = "resolved"
          /\ row.nombre = (IF SyncDisplayName THEN Canonical(c.datos)
                           ELSE c.row0.nombre)
          /\ row.ultimo_ingreso # Null
          /\ row.ultimo_ingreso.at \in c.t0..now
          /\ [row EXCEPT !.nombre = c.row0.nombre,
                         !.ultimo_ingreso = c.row0.ultimo_ingreso] = c.row0

TwoCalls ==
  /\ \A i \in CallIds :
       /\ calls[i].pc # "idle"
       /\ calls[i].variant = "combined"
       /\ ~CallNotVerified(calls[i])
  /\ calls[1].row0 # NoRow /\ calls[1].row0.activo

\* both calls are over and the store failed none of their requests
BothOver == \A i \in CallIds : CallClean(calls[i])

\* the updates the store applied, of both calls
AllApplied ==
  UNION {{calls[i].applied[k] : k \in 1..Len(calls[i].applied)} :
           i \in CallIds}

\* the update applied last among those that carry the field
LastWrite(field) ==
  CHOOSE w \in AllApplied :
    /\ field \in DOMAIN w.u
    /\ \A v \in AllApplied : field \in DOMAIN v.u => v.n <= w.n

C27_LastWriteWins ==
  (TwoCalls /\ BothOver) =>
    /\ \A i \in CallIds : calls[i].outcome = "resolved"
    /\ Writes = 2
    /\ store["1"].ultimo_ingreso = LastWrite("ultimo_ingreso").u.ultimo_ingreso
    /\ LastWrite("ultimo_ingreso").n = Writes
    /\ store["1"].nombre =
         IF \E w \in AllApplied : "nombre" \in DOMAIN w.u
           THEN LastWrite("nombre").u.nombre
           ELSE calls[1].row0.nombre

\* a call that was made is over
CallsComplete ==
  \A i \in CallIds : (calls[i].pc # "idle") ~> (calls[i].pc = "done")

\* C27: two concurrent calls of reconcile for the same active account
\* both complete in every interleaving of their reads and updates, and
\* the stored nombre and ultimo_ingreso are then the values of the update
\* the store applied last for each; no interleaving blocks a call.
C27_ConcurrentLastWriteWins ==
  /\ []C27_LastWriteWins
  /\ CallsComplete

\* the two calls overlapped: both read the row before either wrote it
C27_Witness ==
  /\ TwoCalls /\ BothOver
  /\ ~calls[2].after
  /\ calls[1].datos.persona.nombre # calls[2].datos.persona.nombre
  /\ calls[1].usuario.nombre = NombreLocal
  /\ calls[2].usuario.nombre = NombreLocal
  /\ calls[1].applied[1].n = 2
  /\ store["1"].nombre = Canonical(calls[1].datos)

(***************************************************************************)
(* Properties of the gate as a whole                                       *)
(***************************************************************************)

\* the claims carried in the text of the gate's token
TokenClaims ==
  [documento |-> PayloadOf(gate.token.s)[1],
   tipo_usuario_id |-> DigitVal(PayloadOf(gate.token.s)[2])]

\* the middleware has called next
NextCalled == gate.pc # "idle" /\ gate.via = "mw" /\ gate.nextCalls > 0

\* C31: whenever validarUsuarioMW calls next, req.user was set to the
\* identity the request resolved to: the built-in admin for SUPERADMIN,
\* the claims of the verified token for USUARIO, null for an anonymous
\* request.
C31_ReqUserSetBeforeNext ==
  NextCalled =>
    /\ gate.promise.state = "resolved"
    /\ gate.reqUser = [set |-> TRUE, user |-> gate.promise.value.user]
    /\ gate.promise.value.status \in {"SUPERADMIN", "USUARIO", "SIN TOKEN"}
    /\ gate.promise.value.status = "SUPERADMIN" => gate.reqUser.user = admin
    /\ gate.promise.value.status = "USUARIO" =>
         /\ gate.decoded.ok
         /\ gate.reqUser.user = TokenClaims
    /\ gate.promise.value.status = "SIN TOKEN" => gate.reqUser.user = Null

C31_Witness ==
  /\ NextCalled
  /\ gate.promise.value.status = "USUARIO"
  /\ gate.tipos = Arr(<<3, 4>>)
  /\ gate.reqUser.user = [documento |-> "1", tipo_usuario_id |-> 4]

\* the store failed to persist the updates of the request's reconcile
WriteFailed ==
  /\ rt.pc # "idle" /\ rt.route = "datos"
  /\ rt.writeError # [t |-> "none"]

\* C32: when persisting the updates of reconcile fails, reconcile fails
\* with the error of the store, nothing is reported as a success, and
\* GET /datos answers with an error status carrying that error, never 200.
C32_FailedWriteFails ==
  WriteFailed =>
    /\ rt.pc = "done" /\ rt.nUpdate = 1
    /\ Len(rt.responses) = 1
    /\ rt.responses[1].status \in 400..599
    /\ rt.responses[1].body =
         [status |-> "error", error |-> rt.writeError.message]
    /\ store = rt.store0

C32_Witness ==
  /\ WriteFailed
  /\ "nombre" \in DOMAIN rt.updates
  /\ RtStatus(500)
  /\ rt.responses[1].body.error = <<"update failed">>

\* the token carries an expiry instant that is not after the clock
ExpiredAt(token, clock) ==
  /\ Truthy(token)
  /\ Cardinality(Dots(token.s)) = 2
  /\ Len(HeaderOf(token.s)) = 1 /\ Len(PayloadOf(token.s)) = 3
  /\ clock >= DigitVal(PayloadOf(token.s)[3])

\* the token names ES256 and has the key's signature
GenuineFor(token, key) ==
  HeaderOf(token.s) = <<"E">> /\ SignedWith(token, key)

\* the callback of jwt.verify runs in this step
Verifying == gate.pc = "verify" /\ gate'.pc # "verify"

\* the gate's promise rejected with 403 and a message of this prefix
RejectedAs(g, prefix) ==
  /\ g.pc = "done"
  /\ g.promise.state = "rejected"
  /\ g.promise.value.status = 403
  /\ g.promise.value.msj[1] = prefix

\* C33: a token whose expiry instant is in the past fails verification
\* with the outcome "Token expirado", whether its signature is valid or
\* not.
C33_ExpiredAlwaysExpired ==
  [][(Verifying /\ ExpiredAt(gate.token, now)) =>
       RejectedAs(gate', "Token expirado: ")]_vars

\* C33 amended: a token whose expiry instant is in the past fails
\* verification with "Token expirado" when it names ES256 and its
\* signature is valid, and with "Error en token" (wrong algorithm or
\* invalid signature) when not; both are rejections with 403 and the store
\* is not read.
C33_ExpiredAfterSignature ==
  [][(Verifying /\ ExpiredAt(gate.token, now)) =>
       /\ gate'.nFindOne = 0
       /\ IF GenuineFor(gate.token, CLAVE_PUBLICA)
            THEN RejectedAs(gate', "Token expirado: ")
            ELSE RejectedAs(gate', "Error en token: ")]_vars

C33_Witness ==
  /\ VerifierFailed
  /\ gate.token = Str(TokA)
  /\ RejectedAs(gate, "Token expirado: ")

(***************************************************************************)
(* Properties of obtenerClavePublica                                       *)
(***************************************************************************)
ClaveOver == descarga.pc = "done"
ClaveRejected == ClaveOver /\ descarga.promise.state = "rejected"
ClaveResolved == ClaveOver /\ descarga.promise.state = "resolved"

\* a parameter of the call is missing
ClaveMissingParameter ==
  \/ ~Truthy(descarga.urlOAuth)
  \/ ~Truthy(descarga.rutaDirectorio)
  \/ ~Truthy(descarga.nombreArchivo)

\* the path the call saves the key to
ClavePath == PathJoin(descarga.rutaDirectorio.s, descarga.nombreArchivo.s)

\* the fetch of the call answered with data that is not empty
ClaveFetched ==
  /\ descarga.nGet = 1
  /\ descarga.reply.kind = "response"
  /\ Truthy(descarga.reply.data)

\* the file system is as the call found it
ClaveUntouched == archivos = descarga.archivos0

\* the call left the key file holding the first part of the data only
ClaveTruncated ==
  /\ \A p \in KeyPaths \ {ClavePath} :
       archivos.files[p] = descarga.archivos0.files[p]
  /\ \E k \in 0..(Len(descarga.reply.data.s) - 1) :
       archivos.files[ClavePath] = Str(SubSeq(descarga.reply.data.s, 1, k))

\* what holds of every call of obtenerClavePublica that is over, apart
\* from the state of the key file after a write error
ClaveContract ==
  /\ proceso.estado = "serving"
  /\ descarga.pc = "get" => ClaveUntouched
  /\ ClaveOver =>
       /\ descarga.nWrite <= 1 /\ descarga.nGet <= 1
       /\ descarga.nWrite = 1 =>
            /\ ClaveFetched
            /\ Prefixes(descarga.rutaDirectorio.s,
                        Len(descarga.rutaDirectorio.s)) \subseteq archivos.dirs
       /\ ClaveResolved =>
            /\ descarga.nWrite = 1
            /\ descarga.promise.value = Str(ClavePath)
            /\ archivos.files =
                 [descarga.archivos0.files EXCEPT
                    ![ClavePath] = descarga.reply.data]
       /\ ClaveMissingParameter =>
            ClaveRejected /\ descarga.nGet = 0 /\ ClaveUntouched
       /\ (~ClaveMissingParameter /\ ~ClaveFetched) =>
            ClaveRejected /\ ClaveUntouched
       /\ (ClaveRejected /\ descarga.nWrite = 0) =>
            archivos.files = descarga.archivos0.files

\* C34: obtenerClavePublica writes the key file only after a fetch that
\* returned data that is not empty, creating the directory and those above
\* it first; on a missing parameter, a failed fetch, empty data or a write
\* error the promise rejects, no key file is written and the process goes
\* on.
C34_NoKeyFileOnFailure ==
  /\ ClaveContract
  /\ ClaveRejected => archivos.files = descarga.archivos0.files

\* C34 amended: as C34, but after a write error the key file may be left
\* holding the first part of the data (or nothing), also where a complete
\* key was before; on a missing parameter, a failed fetch or empty data no
\* file and no directory is touched.
C34_KeyFileWholeOrTruncated ==
  /\ ClaveContract
  /\ ClaveRejected =>
       \/ archivos.files = descarga.archivos0.files
       \/ descarga.nWrite = 1 /\ ClaveTruncated

C34_Witness ==
  /\ ClaveRejected
  /\ descarga.nWrite = 1
  /\ descarga.rutaDirectorio = Str(<<"a", "b">>)
  /\ descarga.archivos0.dirs = {<<>>}
  /\ <<"a", "b">> \in archivos.dirs
  /\ descarga.promise.value = Error(<<"ENOSPC">>)
  /\ archivos.files[ClavePath] = Str(<<"k">>)

\* (a) no credential on a route that does not require one, for any role
PassAnonymous ==
  /\ ~Truthy(gate.token)
  /\ ~gate.requerido
  /\ gate.tipos = Null

\* (b) the bypass secret, for any role or for the role of admin
PassBypass ==
  /\ Truthy(gate.token) /\ gate.token = TOKEN_ADMIN
  /\ gate.tipos = Null \/ Includes(gate.tipos.a, admin.tipo_usuario_id)

\* (c) a token that verified, of an active account, for any role or for
\* the role of the token
PassToken ==
  /\ gate.nVerify = 1 /\ gate.decoded.ok
  /\ FoundActive
  /\ gate.tipos = Null \/ Includes(gate.tipos.a, TokenRole)

\* the read of the gate failed with a store error
StoreReadFailed == GateDone /\ gate.usuario = [t |-> "error"]

\* the middleware answered once with an error status and did not call next
Refused ==
  /\ gate.nextCalls = 0
  /\ Len(gate.responses) = 1
  /\ gate.responses[1].status \in 400..599
  /\ gate.responses[1].body.status = "error"

Outcomes == gate.nextCalls + Len(gate.responses)

\* a request of the middleware has at most one outcome, and one when it
\* is over
C36_OneOutcome ==
  (gate.pc # "idle" /\ gate.via = "mw") =>
    /\ Outcomes <= 1
    /\ GateDone <=> Outcomes = 1
    /\ GateDone => (PassedOn \/ Refused)

\* a request of the middleware is over at some time
GateCompletes == (gate.pc \in {"verify", "findOne"}) ~> GateDone

\* C36: when the verifier and the store answer, every request handled by
\* validarUsuarioMW ends in exactly one outcome: next called once or one
\* error response sent, never both and never neither.
C36_ExactlyOneOutcome ==
  /\ []C36_OneOutcome
  /\ GateCompletes

C36_Witness ==
  /\ GateDone /\ gate.via = "mw"
  /\ gate.nVerify = 1 /\ gate.nFindOne = 1
  /\ gate.tipos = Null
  /\ PassedOn

\* the bypass secret is not configured: unset or empty
BypassUnset == ~Truthy(TOKEN_ADMIN)

\* the call of validarUsuario resolved as SUPERADMIN
YieldsSuperadmin ==
  /\ gate.pc # "idle"
  /\ gate.promise.state = "resolved"
  /\ gate.promise.value.status = "SUPERADMIN"

\* C37: in every variant of validarUsuario, when TOKEN_ADMIN is unset or
\* empty no call resolves as SUPERADMIN; a call without credential least
\* of all.
C37_NoSuperadminWithoutSecret ==
  BypassUnset => ~YieldsSuperadmin

\* the header is 'Bearer ' followed by a token that does not begin with
\* 'Bearer '
BearerHeader(header) ==
  /\ Truthy(header)
  /\ StartsWith(header.s, BEARER)
  /\ ~StartsWith(Slice(header.s, BearerLen), BEARER)

\* the header that carries the same token bare; no header at all when the
\* token is empty
BareHeader(header) ==
  IF Len(header.s) = Len(BEARER)
    THEN Undefined
    ELSE Str(Slice(header.s, BearerLen))

\* the request of the same parameters made with the bare header
BareRequest(g) ==
  NewGate("mw", BareHeader(g.header), HeaderToken(BareHeader(g.header)),
          g.tipos, g.requerido)

\* the request as it would be had its header been sent bare
Bare(g) ==
  [g EXCEPT !.header = BareHeader(g.header),
            !.token = HeaderToken(BareHeader(g.header))]

\* the two requests are at the same point with the same decision
SameDecision(g1, g2) ==
  /\ g1.pc = g2.pc
  /\ g1.promise = g2.promise
  /\ g1.nextCalls = g2.nextCalls
  /\ g1.responses = g2.responses
  /\ g1.reqUser = g2.reqUser
  /\ g1.decoded = g2.decoded
  /\ g1.usuario = g2.usuario
  /\ g1.nVerify = g2.nVerify /\ g1.nFindOne = g2.nFindOne
  /\ Truthy(g1.token) \/ Truthy(g2.token) => g1.token = g2.token

\* a request with only 'Bearer ' is answered as one without credential
EmptyBearer ==
  (gate.pc # "idle" /\ gate.via = "mw" /\ gate.header = Str(BEARER)) =>
    /\ GateDone /\ gate.nVerify = 0 /\ gate.nFindOne = 0
    /\ IF gate.requerido
         THEN AnsweredOnly(401)
         ELSE /\ gate.promise = Resolved([status |-> "SIN TOKEN", user |-> Null])
              /\ gate.reqUser = [set |-> TRUE, user |-> Null]

\* every step of a request sent with 'Bearer ' is the step the request
\* with the bare header takes on the same answer of the verifier and of
\* the store
BearerAsBare ==
  (gate' # gate /\ gate'.pc # "idle" /\ gate'.via = "mw"
     /\ BearerHeader(gate'.header)) =>
    CASE gate.pc \in {"idle", "done"} ->
           SameDecision(gate', validarUsuario(BareRequest(gate')))
      [] gate.pc = "verify" ->
           SameDecision(gate', VerifyThen(Bare(gate), CLAVE_PUBLICA, now))
      [] gate.pc = "findOne" ->
           IF gate'.usuario = [t |-> "error"]
             THEN \E message \in StoreErrors :
                    SameDecision(gate', FindOneCatch(Bare(gate), message))
             ELSE SameDecision(gate',
                    FindOneThen(Bare(gate), FindOne(Bare(gate).decoded.documento)))

\* C38: validarUsuarioMW decides alike for the header "Bearer <t>" and for
\* the bare header "<t>", for every token t that does not begin with
\* "Bearer "; the header "Bearer " with an empty token is treated as a
\* missing credential: 401 when requerido, anonymous otherwise.
C38_BearerOptional ==
  /\ []EmptyBearer
  /\ [][BearerAsBare]_vars

C38_Witness ==
  /\ GateDone /\ gate.via = "mw"
  /\ gate.header = Str(BEARER \o TokA)
  /\ gate.token = Str(TokA)
  /\ gate.tipos = Arr(<<3, 4>>)
  /\ PassedOn

\* the request is one of GET /nuevo-token
Refreshing == rt.pc # "idle" /\ rt.route = "nuevo-token"

\* the profile of the request was fetched
ProfileFetched == rt.nGet = 1 /\ rt.documento # ""

\* the local account of the request was read and found
AccountRead ==
  /\ rt.nFindOne = 1
  /\ rt.usuario # NoRow
  /\ rt.usuario.t = "row"

\* C39: GET /nuevo-token sends the request for a new token only after the
\* profile was fetched and then the local account read, both with success,
\* and sends the token of the request with the record just read; when
\* either step fails no such request is sent.
C39_ReissueAfterProfileAndAccount ==
  Refreshing =>
    /\ rt.nGet <= 1 /\ rt.nFindOne <= 1 /\ rt.nPost <= 1
    /\ rt.nFindOne = 1 => ProfileFetched
    /\ rt.pc = "obtenerDatosUsuario" => rt.usuario = [t |-> "unread"]
    /\ rt.nPost = 1 =>
         /\ ProfileFetched /\ AccountRead
         /\ rt.usuario = RtFindOne("nuevo-token", rt.documento)
         /\ rt.sent = NuevoTokenData(rt.token, rt.usuario)
    /\ (rt.pc = "done" /\ ~(ProfileFetched /\ AccountRead)) =>
         /\ rt.nPost = 0
         /\ rt.sent = [t |-> "none"]
         /\ ~RtStatus(200)

C39_Witness ==
  /\ Refreshing /\ rt.pc = "done"
  /\ rt.nPost = 1
  /\ rt.sent = NuevoTokenData(Str(TokA),
                 [t |-> "row", usuario_id |-> 101, tipo_usuario_id |-> 4])
  /\ RtStatus(200)

(***************************************************************************)
(* Properties of reconcile under deactivation                              *)
(***************************************************************************)
\* the update of the request's reconcile was applied to the store
Wrote == rt.pc = "done" /\ rt.route = "datos" /\ rt.rowAtWrite # [t |-> "none"]

\* usuario.update of the request is applied in this step
Writing == rt.pc = "update" /\ rt'.pc = "done" /\ rt'.rowAtWrite # [t |-> "none"]

\* C40: with deactivation running beside reconcile, no reconcile writes
\* nombre or ultimo_ingreso to an account whose stored activo is false at
\* the moment of the write, and GET /datos does not answer 200 for an
\* account deactivated before the write.
C40_NeverWritesInactive ==
  Wrote => rt.rowAtWrite.activo

\* what is known of a request whose update was applied: the row it read
\* was active and the answer is 200
WroteAfterActiveRead ==
  Wrote =>
    /\ rt.usuario.activo
    /\ rt.nFindOne = 1 /\ rt.nUpdate = 1
    /\ RtStatus(200)

\* an inactive row that was read is not written, and the write leaves
\* activo as it is
WriteKeepsActivo ==
  /\ (rt.pc = "validarUsuario" /\ rt'.pc = "update") =>
       store[rt.documento].activo
  /\ Writing =>
       /\ store' = [store EXCEPT ![rt.documento] = Updated(@, rt.updates)]
       /\ DOMAIN rt.updates \subseteq {"nombre", "ultimo_ingreso"}
       /\ store'[rt.documento].activo = store[rt.documento].activo

\* C40 amended: reconcile writes only for an account that was active in
\* the row it read, and its write does not touch activo; a deactivation
\* that lands between the read and the update goes unseen: the update is
\* applied to the inactive account and GET /datos answers 200.
C40_WritesIfReadActive ==
  /\ []WroteAfterActiveRead
  /\ [][WriteKeepsActivo]_vars

C40_Witness ==
  /\ Wrote
  /\ rt.usuario.activo
  /\ ~rt.rowAtWrite.activo
  /\ ~store[rt.documento].activo
  /\ store[rt.documento].ultimo_ingreso = rt.updates.ultimo_ingreso
  /\ RtStatus(200)

====
